---- MODULE Spec2Model ----
(***************************************************************************)
(* Job orchestration engine of the SEO assistant: the BullMQ worker        *)
(* (app/worker/seo.worker.js), the job store helpers (app/jobs.server.js), *)
(* the job-detail route actions, the broker adapter (app/queue.server.js)  *)
(* and the free-plan usage reservation (app/billing.usage.server.js).      *)
(*                                                                         *)
(* Every `await` of a handler is a step of its own, so that the other      *)
(* processes (workers, the recovery timer, the web routes) interleave      *)
(* exactly where the event loop and the database let them.                 *)
(*                                                                         *)
(* Time: a timestamp column holds the age of the instant it records, in    *)
(* units of five minutes, saturating at AgeCap; NullTs is SQL NULL.  Tick  *)
(* lets one unit pass.  `ts < now - K` reads `age >= K`.                   *)
(***************************************************************************)
EXTENDS Integers, Sequences, FiniteSets, TLC

\* ------------------------------------------------------------------ bounds
NumItems == 2        \* most items a job is created with
MaxUserOps == 2      \* web requests (cancel, retry, publish) per behaviour
MaxCallers == 2      \* concurrent callers of reserveFreeUsageMonthly
MaxCalls == 4        \* calls they make in all

\* ------------------------------------------------------- program constants
LeaseTtl == 1                  \* lockJob/touchLock ttlMs = 5 min
StuckAfter == 2                \* STUCK_JOB_MINUTES = 10 min
ShopLockTtl == 3               \* SHOP_LOCK_TTL_MS = 15 min
FreeLimit == 10                \* BILLING_PLANS.FREE.monthlyProductLimit
MAX_RETRIES == 3               \* reserveFreeUsageMonthly attempts
AgeCap == ShopLockTtl          \* ages saturate once every threshold is passed

Jobs == {"J1", "J2"}
Workers == {"W1", "W2"}
Items == 1..NumItems
Kinds == {"generate", "publish"}
NoOwner == "none"
NoJobId == "none"
NullTs == -1
NoErr == "null"

\* --------------------------------------------------------------- variables
VARIABLES
  job,        \* table SeoJob: [Jobs -> row]
  item,       \* table SeoJobItem: [Jobs -> [Items -> row]]
  shopLock,   \* Redis key seo:shop-lock:<shop>: [owner, age]
  queue,      \* BullMQ queue seo-jobs: [Kinds \X Jobs -> state of the message]
  wk,         \* the worker processes: [Workers -> locals of the processor]
  rec,        \* the recovery timer callback (recoverStuckJobs)
  usr,        \* the web request in flight (route action / jobs.server helper)
  used,       \* table FreePlanUsageMonthly, row of the shop for this month
  usageVer,   \* commit counter of that row (what SERIALIZABLE validates)
  txn,        \* reserveFreeUsageMonthly calls in flight: [Callers -> locals]
  reservedFor,\* history: increments of `used` made on behalf of each job
  userOps,    \* web requests issued so far
  bullJobs,   \* BullMQ jobs of the queue as stored in Redis, with their custom ids
  call        \* one call of a generate helper or retry loop: its locals

vars == <<job, item, shopLock, queue, wk, rec, usr, used, usageVer, txn,
          reservedFor, userOps, bullJobs, call>>


\* ------------------------------------------------------------------- rows
\* prisma.seoJob.create in createGenerateJob; the columns it does not set
\* take the schema defaults.
NewJob(n, reserved) ==
  [exists |-> TRUE, status |-> "queued", phase |-> "generating", total |-> n,
   okCount |-> 0, failedCount |-> 0,
   publishOkCount |-> 0, publishFailedCount |-> 0,
   usageReserved |-> reserved, usageCount |-> n,
   lockOwner |-> NoOwner, lockExpiresAt |-> NullTs, lastHeartbeatAt |-> NullTs,
   startedAt |-> NullTs, publishStartedAt |-> NullTs, lastError |-> NoErr]

NoJob == [NewJob(0, FALSE) EXCEPT !.exists = FALSE]

\* Column SeoJobItem.publishStatus of a new row: no value until a publish is requested.
DefaultPublishStatus == "none"

\* items: { create: itemsCreate } in createGenerateJob
NewItem ==
  [status |-> "queued", publishStatus |-> DefaultPublishStatus,
   finishedAt |-> FALSE, publishedAt |-> FALSE,
   error |-> NoErr, publishError |-> NoErr]

NoItem == [NewItem EXCEPT !.status = "none", !.publishStatus = "none"]

\* The rows of SeoJobItem with jobId = j.
ItemIds(j) == {i \in Items : item[j][i].status # "none"}

CountItems(j, P(_)) == Cardinality({i \in ItemIds(j) : P(item[j][i])})

\* updateMany({ where, data }) on the items of job j
UpdateItems(j, Where(_), Data(_)) ==
  [item EXCEPT ![j] = [i \in Items |->
      IF i \in ItemIds(j) /\ Where(item[j][i]) THEN Data(item[j][i])
      ELSE item[j][i]]]

\* orderBy: { id: "asc" }
RECURSIVE SortedSeq(_)
SortedSeq(S) ==
  IF S = {} THEN <<>>
  ELSE LET m == CHOOSE x \in S : \A y \in S : x <= y
       IN <<m>> \o SortedSeq(S \ {m})

\* timestamps
Bump(a) == IF a = NullTs \/ a >= AgeCap THEN a ELSE a + 1
Now == 0
Before(ts, k) == ts # NullTs /\ ts >= k       \* { not: null, lt: now - k }

\* ------------------------------------------------------------ broker
\* queue.add with a custom jobId is ignored while a job with that id exists
\* (waiting, delayed or active); removeOnComplete/removeOnFail free the id.
MsgId(k, j) == <<k, j>>
enqueueSeoJob(q, j, k) ==
  IF q[MsgId(k, j)] = "none" THEN [q EXCEPT ![MsgId(k, j)] = "waiting"] ELSE q

\* queue.remove(customId): an active (locked) job is not removed
removeSeoQueueJob(q, j, k) ==
  IF q[MsgId(k, j)] = "waiting" THEN [q EXCEPT ![MsgId(k, j)] = "none"] ELSE q

\* ------------------------------------------------------------ usage
\* ReserveTx with its comparison off by one: a request that exactly fills
\* the allowance is denied.
ReserveTxOffByOne(u, n, lim) ==
  IF u + n >= lim
  THEN [ok |-> FALSE, used |-> u, remaining |-> IF lim - u > 0 THEN lim - u ELSE 0,
        write |-> u]
  ELSE [ok |-> TRUE, used |-> u + n,
        remaining |-> IF lim - (u + n) > 0 THEN lim - (u + n) ELSE 0,
        write |-> u + n]

\* The body of the transaction of reserveFreeUsageMonthly on a counter value.
ReserveTx(u, n, lim) ==
  IF u + n > lim
  THEN [ok |-> FALSE, used |-> u, remaining |-> IF lim - u > 0 THEN lim - u ELSE 0,
        write |-> u]
  ELSE [ok |-> TRUE, used |-> u + n,
        remaining |-> IF lim - (u + n) > 0 THEN lim - (u + n) ELSE 0,
        write |-> u + n]

\* safeCount = Math.max(0, Number(count || 0))
SafeCount(count) == IF count > 0 THEN count ELSE 0

\* if (!safeCount) return { ok: true, used: 0, remaining: lim }: no transaction
NothingToReserve(u, lim) == [ok |-> TRUE, used |-> 0, remaining |-> lim, write |-> u]

\* reserveFreeUsageMonthly(shop, count, limit) as one committed call
reserveFreeUsageMonthly(u, count, lim) ==
  IF SafeCount(count) = 0
  THEN NothingToReserve(u, lim)
  ELSE ReserveTx(u, SafeCount(count), lim)

\* reserveIfFreePlan: getPlanForShop answers FREE for every shop unless the
\* development-only billing mock is enabled.
reserveIfFreePlan(u, productCount) ==
  reserveFreeUsageMonthly(u, productCount, FreeLimit)

\* ------------------------------------------------------------ processes
IdleWk == [pc |-> "idle", job |-> NoJobId, kind |-> "generate",
           pre |-> [status |-> "queued", phase |-> "generating", usageReserved |-> FALSE],
           todo |-> <<>>, sent |-> FALSE, crashedAt |-> "idle",
           denied |-> FALSE, usedBefore |-> 0]
IdleRec == [pc |-> "idle", stuck |-> <<>>]
IdleUsr == [pc |-> "idle", job |-> NoJobId, op |-> "none",
            ids |-> {}, n |-> 0, isPublish |-> FALSE,
            ok |-> 0, failed |-> 0, pok |-> 0, pfailed |-> 0]
\* A caller of reserveFreeUsageMonthly: its position, its argument, the
\* attempt of the retry loop, the snapshot of its open transaction, its result,
\* and the record of what it was granted over its calls.
IdleTxn == [pc |-> "idle", count |-> 0, attempt |-> 0, ver |-> 0, read |-> 0,
            result |-> "none", repUsed |-> 0, repRemaining |-> 0,
            before |-> 0, wrote |-> 0, granted |-> 0, calls |-> 0]
Callers == 1..MaxCallers

NoLock == [owner |-> NoOwner, age |-> 0]
\* No helper call is in progress.
NoCall == [pc |-> "none"]


\* Empty tables, no lock, no message, every process idle.
InitTables ==
  /\ job = [j \in Jobs |-> NoJob]
  /\ item = [j \in Jobs |-> [i \in Items |-> NoItem]]
  /\ shopLock = NoLock
  /\ queue = [m \in Kinds \X Jobs |-> "none"]
  /\ wk = [w \in Workers |-> IdleWk]
  /\ rec = IdleRec
  /\ usr = IdleUsr
  /\ usageVer = 0
  /\ txn = [c \in Callers |-> IdleTxn]
  /\ reservedFor = [j \in Jobs |-> 0]
  /\ userOps = 0
  /\ bullJobs = {}

InitRest == InitTables /\ call = NoCall

\* A shop that has used nothing of this month's allowance yet.
Init == InitRest /\ used = 0

\* A shop whose counter of the month is at or just below the limit.
InitNearLimit == InitRest /\ used \in (FreeLimit - NumItems)..FreeLimit

\* ------------------------------------------------------------ producers
\* Route action start_generate: reserve, create the job with
\* usageReserved = true, enqueue.  A denied reservation answers 402 and
\* creates nothing.
StartGenerate(j, n) ==
  /\ ~job[j].exists
  /\ LET r == reserveIfFreePlan(used, n) IN
       /\ r.ok
       /\ used' = r.write
       /\ reservedFor' = [reservedFor EXCEPT ![j] = @ + 1]
  /\ job' = [job EXCEPT ![j] = NewJob(n, TRUE)]
  /\ item' = [item EXCEPT ![j] = [i \in Items |-> IF i <= n THEN NewItem ELSE NoItem]]
  /\ queue' = enqueueSeoJob(queue, j, "generate")
  /\ UNCHANGED <<shopLock, wk, rec, usr, usageVer, txn, userOps, bullJobs, call>>

\* createGenerateJob with its default usageReserved = false, then
\* enqueueSeoJob: the entry point the worker-side enforcement exists for.
CreateUnreserved(j, n) ==
  /\ ~job[j].exists
  /\ job' = [job EXCEPT ![j] = NewJob(n, FALSE)]
  /\ item' = [item EXCEPT ![j] = [i \in Items |-> IF i <= n THEN NewItem ELSE NoItem]]
  /\ queue' = enqueueSeoJob(queue, j, "generate")
  /\ UNCHANGED <<shopLock, wk, rec, usr, used, usageVer, txn, reservedFor, userOps, bullJobs, call>>

\* ------------------------------------------------------------ worker
Goto(w, p) == wk' = [wk EXCEPT ![w].pc = p]
At(w, p) == wk[w].pc = p
Cur(w) == wk[w].job

\* isJobCancelled(jobId)
isJobCancelled(j) == job[j].status = "cancelled"

\* Worker processor: take a waiting message and load the job row.
Deliver(w, k, j) ==
  /\ At(w, "idle")
  /\ queue[MsgId(k, j)] = "waiting"
  /\ job[j].exists
  /\ queue' = [queue EXCEPT ![MsgId(k, j)] = "active"]
  /\ wk' = [wk EXCEPT ![w] = [IdleWk EXCEPT !.pc = "loaded", !.job = j, !.kind = k,
               !.pre = [status |-> job[j].status, phase |-> job[j].phase,
                        usageReserved |-> job[j].usageReserved]]]
  /\ UNCHANGED <<job, item, shopLock, rec, usr, used, usageVer, txn, reservedFor, userOps, bullJobs, call>>

\* A SET without NX: the key is overwritten whoever holds it
acquireShopLockOverwrite(w) ==
  /\ At(w, "loaded")
  /\ shopLock' = [owner |-> w, age |-> Now]
  /\ Goto(w, "lockJob")
  /\ UNCHANGED <<job, item, queue, rec, usr, used, usageVer, txn, reservedFor, userOps, bullJobs, call>>

\* acquireShopLock: SET key owner PX ttl NX; on failure bullJob.moveToDelayed
\* puts the message back without consuming an attempt.
acquireShopLock(w) ==
  /\ At(w, "loaded")
  /\ IF shopLock.owner = NoOwner
     THEN /\ shopLock' = [owner |-> w, age |-> Now]
          /\ Goto(w, "lockJob")
          /\ UNCHANGED queue
     ELSE /\ queue' = [queue EXCEPT ![MsgId(wk[w].kind, Cur(w))] = "waiting"]
          /\ wk' = [wk EXCEPT ![w] = IdleWk]
          /\ UNCHANGED shopLock
  /\ UNCHANGED <<job, item, rec, usr, used, usageVer, txn, reservedFor, userOps, bullJobs, call>>

\* A where clause that never takes a lapsed lease over
CanLockNoTakeover(r, owner) ==
  \/ r.lockOwner = NoOwner
  \/ r.lockOwner = owner

\* lockJob's where clause
CanLock(r, owner) ==
  \/ r.lockOwner = NoOwner
  \/ r.lockExpiresAt = NullTs
  \/ Before(r.lockExpiresAt, LeaseTtl)
  \/ r.lockOwner = owner

\* A processor that returns on a refused lease without its finally block
lockJobKeepsShopLock(w) ==
  /\ At(w, "lockJob")
  /\ IF CanLock(job[Cur(w)], w)
     THEN /\ job' = [job EXCEPT ![Cur(w)].lockOwner = w,
                                ![Cur(w)].lockExpiresAt = Now,
                                ![Cur(w)].lastHeartbeatAt = Now]
          /\ Goto(w, "dispatch")
          /\ UNCHANGED queue
     ELSE /\ wk' = [wk EXCEPT ![w] = IdleWk]
          /\ queue' = [queue EXCEPT ![MsgId(wk[w].kind, Cur(w))] = "none"]
          /\ UNCHANGED job
  /\ UNCHANGED <<item, shopLock, rec, usr, used, usageVer, txn, reservedFor, userOps, bullJobs, call>>

\* handleJob: lockJob(jobId, lockOwner); not acquired => return
lockJob(w) ==
  /\ At(w, "lockJob")
  /\ IF CanLock(job[Cur(w)], w)
     THEN /\ job' = [job EXCEPT ![Cur(w)].lockOwner = w,
                                ![Cur(w)].lockExpiresAt = Now,
                                ![Cur(w)].lastHeartbeatAt = Now]
          /\ Goto(w, "dispatch")
     ELSE /\ Goto(w, "relShop")
          /\ UNCHANGED job
  /\ UNCHANGED <<item, shopLock, queue, rec, usr, used, usageVer, txn, reservedFor, userOps, bullJobs, call>>

\* handleJob after the lease: the cancelled check on the preloaded row, the
\* total self-heal, the phase routing and, for an unreserved generating job,
\* the call of reserveIfFreePlan.
Dispatch(w) ==
  /\ At(w, "dispatch")
  /\ LET j == Cur(w)
         pre == wk[w].pre
         r == reserveIfFreePlan(used, job[j].usageCount)
     IN
     IF pre.status = "cancelled" THEN
        /\ Goto(w, "finally")
        /\ UNCHANGED <<job, used, reservedFor>>
     ELSE
        /\ job' = [job EXCEPT ![j].total = Cardinality(ItemIds(j))]
        /\ IF pre.phase = "generating" /\ ~pre.usageReserved THEN
              /\ used' = r.write
              /\ reservedFor' = [reservedFor EXCEPT ![j] = IF r.ok THEN @ + 1 ELSE @]
              /\ wk' = [wk EXCEPT ![w].pc = IF r.ok THEN "markReserved" ELSE "limitItems",
                                   ![w].denied = ~r.ok,
                                   ![w].usedBefore = used]
           ELSE
              /\ Goto(w, CASE pre.phase = "generating" -> "genStart"
                           [] pre.phase = "publishing" -> "pubStart"
                           [] OTHER -> "finally")
              /\ UNCHANGED <<used, reservedFor>>
  /\ UNCHANGED <<item, shopLock, queue, rec, usr, usageVer, txn, userOps, bullJobs, call>>

\* LimitItems without its updateMany: the denial that forgets the items.
LimitItemsForgotten(w) ==
  /\ At(w, "limitItems")
  /\ Goto(w, "limitJob")
  /\ UNCHANGED <<job, item, shopLock, queue, rec, usr, used, usageVer, txn, reservedFor, userOps, bullJobs, call>>

\* handleJob, reservation denied: seoJobItem.updateMany(queued|running -> failed)
LimitItems(w) ==
  /\ At(w, "limitItems")
  /\ item' = UpdateItems(Cur(w),
        LAMBDA r : r.status \in {"queued", "running"},
        LAMBDA r : [r EXCEPT !.status = "failed", !.finishedAt = TRUE, !.error = "limit"])
  /\ Goto(w, "limitJob")
  /\ UNCHANGED <<job, shopLock, queue, rec, usr, used, usageVer, txn, reservedFor, userOps, bullJobs, call>>

\* handleJob, reservation denied: seoJob.update(status failed), return
LimitJob(w) ==
  /\ At(w, "limitJob")
  /\ job' = [job EXCEPT ![Cur(w)].status = "failed",
                        ![Cur(w)].lastError = "limit",
                        ![Cur(w)].phase = "generating",
                        ![Cur(w)].usageReserved = FALSE]
  /\ Goto(w, "finally")
  /\ UNCHANGED <<item, shopLock, queue, rec, usr, used, usageVer, txn, reservedFor, userOps, bullJobs, call>>

\* handleJob, reservation granted: seoJob.update(usageReserved: true)
MarkReserved(w) ==
  /\ At(w, "markReserved")
  /\ job' = [job EXCEPT ![Cur(w)].usageReserved = TRUE]
  /\ Goto(w, "genStart")
  /\ UNCHANGED <<item, shopLock, queue, rec, usr, used, usageVer, txn, reservedFor, userOps, bullJobs, call>>

\* The columns no worker step of a phase writes.
WorkerFrame == <<queue, rec, usr, used, usageVer, txn, reservedFor, userOps, bullJobs, call>>

\* A touch whose where clause is the id alone
touchLockDbAnyOwner(j, owner) ==
  [job EXCEPT ![j].lockExpiresAt = Now, ![j].lastHeartbeatAt = Now]

\* touchLock: seoJob.updateMany({ where: { id, lockOwner }, data: lease })
touchLockDb(j, owner) ==
  IF job[j].lockOwner = owner
  THEN [job EXCEPT ![j].lockExpiresAt = Now, ![j].lastHeartbeatAt = Now]
  ELSE job

\* touchLock, first await, at the head of an item of either phase
TouchLock(w) ==
  /\ wk[w].pc \in {"genTouch", "pubTouch"}
  /\ job' = touchLockDb(Cur(w), w)
  /\ Goto(w, IF At(w, "genTouch") THEN "genRefGet" ELSE "pubRefGet")
  /\ UNCHANGED <<item, shopLock>> /\ UNCHANGED WorkerFrame

\* refreshShopLock: const current = await redis.get(key); if (current !== owner) return false
RefreshGet(w) ==
  /\ wk[w].pc \in {"genRefGet", "pubRefGet"}
  /\ LET mine == shopLock.owner = w
         gen == At(w, "genRefGet")
     IN Goto(w, IF mine THEN (IF gen THEN "genRefExp" ELSE "pubRefExp")
                ELSE (IF gen THEN "genRun" ELSE "pubRun"))
  /\ UNCHANGED <<job, item, shopLock>> /\ UNCHANGED WorkerFrame

\* refreshShopLock: await redis.pexpire(key, SHOP_LOCK_TTL_MS), whoever holds the key now
RefreshExpire(w) ==
  /\ wk[w].pc \in {"genRefExp", "pubRefExp"}
  /\ shopLock' = IF shopLock.owner = NoOwner THEN shopLock ELSE [shopLock EXCEPT !.age = Now]
  /\ Goto(w, IF At(w, "genRefExp") THEN "genRun" ELSE "pubRun")
  /\ UNCHANGED <<job, item>> /\ UNCHANGED WorkerFrame

\* processGenerate: seoJob.update(status running, phase generating, ...)
GenStart(w) ==
  /\ At(w, "genStart")
  /\ job' = [job EXCEPT ![Cur(w)].status = "running",
                        ![Cur(w)].startedAt = Now,
                        ![Cur(w)].lastHeartbeatAt = Now,
                        ![Cur(w)].phase = "generating",
                        ![Cur(w)].lastError = NoErr]
  /\ Goto(w, "genFind")
  /\ UNCHANGED <<item, shopLock>> /\ UNCHANGED WorkerFrame

\* processGenerate: findMany(status in [queued, failed], orderBy id asc)
GenFind(w) ==
  /\ At(w, "genFind")
  /\ wk' = [wk EXCEPT ![w].pc = "genHead",
        ![w].todo = SortedSeq({i \in ItemIds(Cur(w)) :
                       item[Cur(w)][i].status \in {"queued", "failed"}})]
  /\ UNCHANGED <<job, item, shopLock>> /\ UNCHANGED WorkerFrame

\* processGenerate: loop head, if (await isJobCancelled(job.id)) return
GenHead(w) ==
  /\ At(w, "genHead")
  /\ Goto(w, IF wk[w].todo = <<>> THEN "genFinalCheck"
             ELSE IF isJobCancelled(Cur(w)) THEN "finally" ELSE "genTouch")
  /\ UNCHANGED <<job, item, shopLock>> /\ UNCHANGED WorkerFrame

\* processGenerate: seoJobItem.update(status running, error null)
GenRun(w) ==
  /\ At(w, "genRun")
  /\ item' = [item EXCEPT ![Cur(w)][Head(wk[w].todo)] =
                [@ EXCEPT !.status = "running", !.error = NoErr]]
  /\ Goto(w, "genCall")
  /\ UNCHANGED <<job, shopLock>> /\ UNCHANGED WorkerFrame

\* An item write of processGenerate that leaves finishedAt out
GenCallNoTimestamp(w, ok) ==
  /\ At(w, "genCall")
  /\ item' = [item EXCEPT ![Cur(w)][Head(wk[w].todo)] =
                IF ok THEN [@ EXCEPT !.status = "success"]
                ELSE [@ EXCEPT !.status = "failed", !.error = "gen"]]
  /\ wk' = [wk EXCEPT ![w].pc = IF ok THEN "genCountOk" ELSE "genCountFail",
                      ![w].sent = TRUE]
  /\ UNCHANGED <<job, shopLock>> /\ UNCHANGED WorkerFrame

\* processGenerate: the Generator call returns or throws, and the item row is
\* written: status success + draft, or (catch) status failed + error.
GenCall(w, ok) ==
  /\ At(w, "genCall")
  /\ item' = [item EXCEPT ![Cur(w)][Head(wk[w].todo)] =
                IF ok THEN [@ EXCEPT !.status = "success", !.finishedAt = TRUE]
                ELSE [@ EXCEPT !.status = "failed", !.finishedAt = TRUE, !.error = "gen"]]
  /\ wk' = [wk EXCEPT ![w].pc = IF ok THEN "genCountOk" ELSE "genCountFail",
                      ![w].sent = TRUE]
  /\ UNCHANGED <<job, shopLock>> /\ UNCHANGED WorkerFrame

\* A loop that gives the remaining items up after a failed one
GenCountStopOnFailure(w) ==
  /\ wk[w].pc \in {"genCountOk", "genCountFail"}
  /\ job' = IF At(w, "genCountOk")
            THEN [job EXCEPT ![Cur(w)].okCount = @ + 1]
            ELSE [job EXCEPT ![Cur(w)].failedCount = @ + 1, ![Cur(w)].lastError = "gen"]
  /\ wk' = [wk EXCEPT ![w].pc = "genHead",
                      ![w].todo = IF At(w, "genCountOk") THEN Tail(@) ELSE <<>>]
  /\ UNCHANGED <<item, shopLock>> /\ UNCHANGED WorkerFrame

\* processGenerate: okCount: { increment: 1 } / failedCount: { increment: 1 }, sleep(450)
GenCount(w) ==
  /\ wk[w].pc \in {"genCountOk", "genCountFail"}
  /\ job' = IF At(w, "genCountOk")
            THEN [job EXCEPT ![Cur(w)].okCount = @ + 1]
            ELSE [job EXCEPT ![Cur(w)].failedCount = @ + 1, ![Cur(w)].lastError = "gen"]
  /\ wk' = [wk EXCEPT ![w].pc = "genHead", ![w].todo = Tail(@)]
  /\ UNCHANGED <<item, shopLock>> /\ UNCHANGED WorkerFrame

\* processGenerate: after the loop, if (await isJobCancelled(job.id)) return
GenFinalCheck(w) ==
  /\ At(w, "genFinalCheck")
  /\ Goto(w, IF isJobCancelled(Cur(w)) THEN "finally" ELSE "genFinalize")
  /\ UNCHANGED <<job, item, shopLock>> /\ UNCHANGED WorkerFrame

\* processGenerate: seoJob.update(status success, phase generated)
GenFinalize(w) ==
  /\ At(w, "genFinalize")
  /\ job' = [job EXCEPT ![Cur(w)].status = "success", ![Cur(w)].phase = "generated"]
  /\ Goto(w, "finally")
  /\ UNCHANGED <<item, shopLock>> /\ UNCHANGED WorkerFrame

\* A release that clears the owner and keeps the expiry
FinallyOwnerOnly(w) ==
  /\ At(w, "finally")
  /\ job' = IF job[Cur(w)].lockOwner = w
            THEN [job EXCEPT ![Cur(w)].lockOwner = NoOwner]
            ELSE job
  /\ Goto(w, "relShop")
  /\ UNCHANGED <<item, shopLock>> /\ UNCHANGED WorkerFrame

\* handleJob finally: updateMany({ where: { id, lockOwner }, data: lease null })
Finally(w) ==
  /\ At(w, "finally")
  /\ job' = IF job[Cur(w)].lockOwner = w
            THEN [job EXCEPT ![Cur(w)].lockOwner = NoOwner, ![Cur(w)].lockExpiresAt = NullTs]
            ELSE job
  /\ Goto(w, "relShop")
  /\ UNCHANGED <<item, shopLock>> /\ UNCHANGED WorkerFrame

\* processor finally: releaseShopLock (delete if the value is the owner);
\* the processor returns and the message is removed (removeOnComplete).
releaseShopLock(w) ==
  /\ At(w, "relShop")
  /\ shopLock' = IF shopLock.owner = w THEN NoLock ELSE shopLock
  /\ queue' = [queue EXCEPT ![MsgId(wk[w].kind, Cur(w))] = "none"]
  /\ wk' = [wk EXCEPT ![w] = IdleWk]
  /\ UNCHANGED <<job, item, rec, usr, used, usageVer, txn, reservedFor, userOps, bullJobs, call>>

\* processPublish: seoJob.update(status running, phase publishing, ...)
PubStart(w) ==
  /\ At(w, "pubStart")
  /\ job' = [job EXCEPT ![Cur(w)].status = "running",
                        ![Cur(w)].publishStartedAt = Now,
                        ![Cur(w)].lastHeartbeatAt = Now,
                        ![Cur(w)].phase = "publishing",
                        ![Cur(w)].lastError = NoErr]
  /\ Goto(w, "pubFind")
  /\ UNCHANGED <<item, shopLock>> /\ UNCHANGED WorkerFrame

\* A publish phase that returns without finalizing when it finds no item
PubFindReturnsWhenEmpty(w) ==
  /\ At(w, "pubFind")
  /\ LET sel == {i \in ItemIds(Cur(w)) :
                   item[Cur(w)][i].publishStatus \in {"queued", "failed"}}
     IN wk' = [wk EXCEPT ![w].pc = IF sel = {} THEN "finally" ELSE "pubHead",
                         ![w].todo = SortedSeq(sel)]
  /\ UNCHANGED <<job, item, shopLock>> /\ UNCHANGED WorkerFrame

\* processPublish: findMany(publishStatus in [queued, failed], orderBy id asc);
\* with no item the phase goes straight to its cancelled check and finalize.
PubFind(w) ==
  /\ At(w, "pubFind")
  /\ LET sel == {i \in ItemIds(Cur(w)) :
                   item[Cur(w)][i].publishStatus \in {"queued", "failed"}}
     IN wk' = [wk EXCEPT ![w].pc = IF sel = {} THEN "pubFinalCheck" ELSE "pubHead",
                         ![w].todo = SortedSeq(sel)]
  /\ UNCHANGED <<job, item, shopLock>> /\ UNCHANGED WorkerFrame

\* processPublish: loop head, if (await isJobCancelled(job.id)) return
PubHead(w) ==
  /\ At(w, "pubHead")
  /\ Goto(w, IF wk[w].todo = <<>> THEN "pubFinalCheck"
             ELSE IF isJobCancelled(Cur(w)) THEN "finally" ELSE "pubTouch")
  /\ UNCHANGED <<job, item, shopLock>> /\ UNCHANGED WorkerFrame

\* A publish step that marks the item running in both status columns
PubRunBothColumns(w) ==
  /\ At(w, "pubRun")
  /\ item' = [item EXCEPT ![Cur(w)][Head(wk[w].todo)] =
                [@ EXCEPT !.publishStatus = "running", !.publishError = NoErr,
                          !.status = "running"]]
  /\ Goto(w, "pubCall")
  /\ UNCHANGED <<job, shopLock>> /\ UNCHANGED WorkerFrame

\* processPublish: seoJobItem.update(publishStatus running, publishError null)
PubRun(w) ==
  /\ At(w, "pubRun")
  /\ item' = [item EXCEPT ![Cur(w)][Head(wk[w].todo)] =
                [@ EXCEPT !.publishStatus = "running", !.publishError = NoErr]]
  /\ Goto(w, "pubCall")
  /\ UNCHANGED <<job, shopLock>> /\ UNCHANGED WorkerFrame

\* processPublish: the StoreAPI write returns or throws, and the item row is
\* written: publishStatus success + publishedAt, or (catch) failed + error.
PubCall(w, ok) ==
  /\ At(w, "pubCall")
  /\ item' = [item EXCEPT ![Cur(w)][Head(wk[w].todo)] =
                IF ok THEN [@ EXCEPT !.publishStatus = "success", !.publishedAt = TRUE]
                ELSE [@ EXCEPT !.publishStatus = "failed", !.publishError = "pub"]]
  /\ wk' = [wk EXCEPT ![w].pc = IF ok THEN "pubCountOk" ELSE "pubCountFail",
                      ![w].sent = TRUE]
  /\ UNCHANGED <<job, shopLock>> /\ UNCHANGED WorkerFrame

\* A publish loop that gives the remaining items up after a failed one
PubCountStopOnFailure(w) ==
  /\ wk[w].pc \in {"pubCountOk", "pubCountFail"}
  /\ job' = IF At(w, "pubCountOk")
            THEN [job EXCEPT ![Cur(w)].publishOkCount = @ + 1]
            ELSE [job EXCEPT ![Cur(w)].publishFailedCount = @ + 1,
                             ![Cur(w)].lastError = "pub"]
  /\ wk' = [wk EXCEPT ![w].pc = "pubHead",
                      ![w].todo = IF At(w, "pubCountOk") THEN Tail(@) ELSE <<>>]
  /\ UNCHANGED <<item, shopLock>> /\ UNCHANGED WorkerFrame

\* processPublish: publishOkCount / publishFailedCount increment, sleep(350)
PubCount(w) ==
  /\ wk[w].pc \in {"pubCountOk", "pubCountFail"}
  /\ job' = IF At(w, "pubCountOk")
            THEN [job EXCEPT ![Cur(w)].publishOkCount = @ + 1]
            ELSE [job EXCEPT ![Cur(w)].publishFailedCount = @ + 1,
                             ![Cur(w)].lastError = "pub"]
  /\ wk' = [wk EXCEPT ![w].pc = "pubHead", ![w].todo = Tail(@)]
  /\ UNCHANGED <<item, shopLock>> /\ UNCHANGED WorkerFrame

\* processPublish: if (await isJobCancelled(job.id)) return, before finalize
PubFinalCheck(w) ==
  /\ At(w, "pubFinalCheck")
  /\ Goto(w, IF isJobCancelled(Cur(w)) THEN "finally" ELSE "pubFinalize")
  /\ UNCHANGED <<job, item, shopLock>> /\ UNCHANGED WorkerFrame

\* processPublish: seoJob.update(status success, phase published)
PubFinalize(w) ==
  /\ At(w, "pubFinalize")
  /\ job' = [job EXCEPT ![Cur(w)].status = "success", ![Cur(w)].phase = "published"]
  /\ Goto(w, "finally")
  /\ UNCHANGED <<item, shopLock>> /\ UNCHANGED WorkerFrame

\* ------------------------------------------------------------ failures, time
Down == {"crashed", "dead"}

\* The worker process dies in the middle of a delivery.
Crash(w) ==
  /\ wk[w].pc \notin ({"idle"} \cup Down)
  /\ wk' = [wk EXCEPT ![w].pc = "crashed", ![w].crashedAt = wk[w].pc]
  /\ UNCHANGED <<job, item, shopLock, queue, rec, usr, used, usageVer, txn,
                 reservedFor, userOps, bullJobs, call>>

\* BullMQ's stalled-job check moves the message of a dead worker back to wait.
Stalled(w) ==
  /\ At(w, "crashed")
  /\ queue' = [queue EXCEPT ![MsgId(wk[w].kind, Cur(w))] = "waiting"]
  /\ Goto(w, "dead")
  /\ UNCHANGED <<job, item, shopLock, rec, usr, used, usageVer, txn,
                 reservedFor, userOps, bullJobs, call>>

BumpJob(r) == [r EXCEPT !.lockExpiresAt = Bump(@), !.lastHeartbeatAt = Bump(@),
                        !.startedAt = Bump(@), !.publishStartedAt = Bump(@)]

\* Five minutes pass: every timestamp gets older, the Redis key loses TTL and
\* is deleted by Redis when SHOP_LOCK_TTL_MS have passed since SET / PEXPIRE.
Tick ==
  /\ job' = [j \in Jobs |-> BumpJob(job[j])]
  /\ shopLock' = IF shopLock.owner = NoOwner THEN shopLock
                 ELSE IF shopLock.age + 1 >= ShopLockTtl THEN NoLock
                 ELSE [shopLock EXCEPT !.age = @ + 1]
  /\ UNCHANGED <<item, queue, wk, rec, usr, used, usageVer, txn, reservedFor, userOps, bullJobs, call>>

\* ------------------------------------------------------------ recovery
JobOrder == <<"J1", "J2">>

\* recoverStuckJobs: the where clause of findMany
IsStuck(r) ==
  /\ r.exists
  /\ r.status = "running"
  /\ Before(r.lockExpiresAt, LeaseTtl)
  /\ \/ Before(r.lastHeartbeatAt, StuckAfter)
     \/ Before(r.startedAt, StuckAfter)
     \/ Before(r.publishStartedAt, StuckAfter)
     \/ (r.startedAt = NullTs /\ r.publishStartedAt = NullTs /\ r.lastHeartbeatAt = NullTs)

RecFrame == <<shopLock, queue, wk, usr, used, usageVer, txn, reservedFor, userOps, bullJobs, call>>

\* recoverStuckJobs: findMany; runs on the timer of a live worker process
RecoverFind ==
  /\ rec.pc = "idle"
  /\ \E w \in Workers : wk[w].pc \notin Down
  /\ LET found == SelectSeq(JobOrder, LAMBDA j : IsStuck(job[j])) IN
       /\ found # <<>>
       /\ rec' = [pc |-> "items",
                  stuck |-> [k \in 1..Len(found) |->
                               [id |-> found[k], phase |-> job[found[k]].phase]]]
  /\ UNCHANGED <<job, item>> /\ UNCHANGED RecFrame

\* recoverStuckJobs: updateMany on the running items of the phase's column
RecoverItems ==
  /\ rec.pc = "items"
  /\ item' = IF Head(rec.stuck).phase = "publishing"
             THEN UpdateItems(Head(rec.stuck).id,
                    LAMBDA r : r.publishStatus = "running",
                    LAMBDA r : [r EXCEPT !.publishStatus = "failed", !.publishError = "recovered"])
             ELSE UpdateItems(Head(rec.stuck).id,
                    LAMBDA r : r.status = "running",
                    LAMBDA r : [r EXCEPT !.status = "failed", !.finishedAt = TRUE,
                                         !.error = "recovered"])
  /\ rec' = [rec EXCEPT !.pc = "job"]
  /\ UNCHANGED job /\ UNCHANGED RecFrame

\* RecoverJob without lockOwner: null, lockExpiresAt: null in its update.
RecoverJobLeaseKept ==
  /\ rec.pc = "job"
  /\ job' = [job EXCEPT ![Head(rec.stuck).id].status = "failed",
                        ![Head(rec.stuck).id].lastError = "recovered"]
  /\ rec' = IF Tail(rec.stuck) = <<>> THEN IdleRec
            ELSE [pc |-> "items", stuck |-> Tail(rec.stuck)]
  /\ UNCHANGED item /\ UNCHANGED RecFrame

\* recoverStuckJobs: seoJob.update(status failed, lease null); next stuck job
RecoverJob ==
  /\ rec.pc = "job"
  /\ job' = [job EXCEPT ![Head(rec.stuck).id].status = "failed",
                        ![Head(rec.stuck).id].lastError = "recovered",
                        ![Head(rec.stuck).id].lockOwner = NoOwner,
                        ![Head(rec.stuck).id].lockExpiresAt = NullTs]
  /\ rec' = IF Tail(rec.stuck) = <<>> THEN IdleRec
            ELSE [pc |-> "items", stuck |-> Tail(rec.stuck)]
  /\ UNCHANGED item /\ UNCHANGED RecFrame

\* ------------------------------------------------------------ web requests
UsrFrame == <<shopLock, wk, rec, used, usageVer, txn, reservedFor, bullJobs, call>>
CanRequest(j) == usr.pc = "idle" /\ userOps < MaxUserOps /\ job[j].exists
Begin(j, op, p) == [IdleUsr EXCEPT !.pc = p, !.job = j, !.op = op]

\* cancelJobForShop: findFirst, removeSeoQueueJob for both kinds
CancelBegin(j) ==
  /\ CanRequest(j)
  /\ usr' = [Begin(j, "cancel", "cancelItems") EXCEPT
               !.isPublish = job[j].phase \in {"publishing", "published"}]
  /\ queue' = removeSeoQueueJob(removeSeoQueueJob(queue, j, "generate"), j, "publish")
  /\ userOps' = userOps + 1
  /\ UNCHANGED <<job, item>> /\ UNCHANGED UsrFrame

\* A cancel whose first updateMany takes every item that has not succeeded
CancelItemsEveryUnfinished ==
  /\ usr.pc = "cancelItems"
  /\ item' = [item EXCEPT ![usr.job] = [i \in Items |->
       IF i \notin ItemIds(usr.job) THEN item[usr.job][i]
       ELSE LET r == item[usr.job][i]
                g == IF r.status # "success"
                     THEN [r EXCEPT !.status = "failed", !.error = "cancelled",
                                    !.finishedAt = TRUE]
                     ELSE r
            IN IF g.publishStatus \in {"queued", "running"}
               THEN [g EXCEPT !.publishStatus = "failed", !.publishError = "cancelled",
                              !.publishedAt = FALSE]
               ELSE g]]
  /\ usr' = [usr EXCEPT !.pc = "cancelCount"]
  /\ UNCHANGED <<job, queue, userOps>> /\ UNCHANGED UsrFrame

\* cancelJobForShop: the two updateMany that fail the in-flight items
CancelItems ==
  /\ usr.pc = "cancelItems"
  /\ item' = [item EXCEPT ![usr.job] = [i \in Items |->
       IF i \notin ItemIds(usr.job) THEN item[usr.job][i]
       ELSE LET r == item[usr.job][i]
                g == IF r.status \in {"queued", "running"}
                     THEN [r EXCEPT !.status = "failed", !.error = "cancelled",
                                    !.finishedAt = TRUE]
                     ELSE r
            IN IF g.publishStatus \in {"queued", "running"}
               THEN [g EXCEPT !.publishStatus = "failed", !.publishError = "cancelled",
                              !.publishedAt = FALSE]
               ELSE g]]
  /\ usr' = [usr EXCEPT !.pc = "cancelCount"]
  /\ UNCHANGED <<job, queue, userOps>> /\ UNCHANGED UsrFrame

\* cancelJobForShop: the four counts ("Normalize counters")
CancelCount ==
  /\ usr.pc = "cancelCount"
  /\ usr' = [usr EXCEPT !.pc = "cancelJob",
       !.ok = CountItems(usr.job, LAMBDA r : r.status = "success"),
       !.failed = CountItems(usr.job, LAMBDA r : r.status = "failed"),
       !.pok = CountItems(usr.job, LAMBDA r : r.publishStatus = "success"),
       !.pfailed = CountItems(usr.job, LAMBDA r : r.publishStatus = "failed")]
  /\ UNCHANGED <<job, item, queue, userOps>> /\ UNCHANGED UsrFrame

\* cancelJobForShop: seoJob.update(status cancelled, counters, lease null)
CancelJob ==
  /\ usr.pc = "cancelJob"
  /\ job' = [job EXCEPT ![usr.job] = [@ EXCEPT
       !.status = "cancelled", !.lastError = "cancelled",
       !.phase = IF usr.isPublish THEN "publishing" ELSE "generating",
       !.okCount = usr.ok, !.failedCount = usr.failed,
       !.publishOkCount = usr.pok, !.publishFailedCount = usr.pfailed,
       !.lockOwner = NoOwner, !.lockExpiresAt = NullTs]]
  /\ usr' = IdleUsr
  /\ UNCHANGED <<item, queue, userOps>> /\ UNCHANGED UsrFrame

\* retryFailedForJob: findFirst, kind inferred from the phase when not given,
\* count of the failed items; with none it returns without a change.
InferredKind(j, kind) ==
  IF kind # "null" THEN kind
  ELSE IF job[j].phase \in {"publishing", "published"} THEN "publish" ELSE "generate"

RetryBegin(j, kind) ==
  /\ CanRequest(j)
  /\ LET k == InferredKind(j, kind) IN
       /\ IF k = "publish"
          THEN CountItems(j, LAMBDA r : r.publishStatus = "failed") > 0
          ELSE CountItems(j, LAMBDA r : r.status = "failed") > 0
       /\ usr' = [Begin(j, "retry", "retryItems") EXCEPT !.isPublish = (k = "publish")]
  /\ userOps' = userOps + 1
  /\ UNCHANGED <<job, item, queue>> /\ UNCHANGED UsrFrame

\* retryFailedForJob: updateMany(failed -> queued)
RetryItems ==
  /\ usr.pc = "retryItems"
  /\ item' = IF usr.isPublish
             THEN UpdateItems(usr.job, LAMBDA r : r.publishStatus = "failed",
                    LAMBDA r : [r EXCEPT !.publishStatus = "queued", !.publishError = NoErr,
                                         !.publishedAt = FALSE])
             ELSE UpdateItems(usr.job, LAMBDA r : r.status = "failed",
                    LAMBDA r : [r EXCEPT !.status = "queued", !.error = NoErr,
                                         !.finishedAt = FALSE])
  /\ usr' = [usr EXCEPT !.pc = "retryCount"]
  /\ UNCHANGED <<job, queue, userOps>> /\ UNCHANGED UsrFrame

\* retryFailedForJob: count of the successful items
RetryCount ==
  /\ usr.pc = "retryCount"
  /\ usr' = [usr EXCEPT !.pc = "retryJob",
       !.ok = IF usr.isPublish
              THEN CountItems(usr.job, LAMBDA r : r.publishStatus = "success")
              ELSE CountItems(usr.job, LAMBDA r : r.status = "success")]
  /\ UNCHANGED <<job, item, queue, userOps>> /\ UNCHANGED UsrFrame

\* retryFailedForJob: seoJob.update(status queued, counters, lease null), enqueueSeoJob
RetryJob ==
  /\ usr.pc = "retryJob"
  /\ job' = [job EXCEPT ![usr.job] =
       IF usr.isPublish
       THEN [@ EXCEPT !.status = "queued", !.phase = "publishing", !.lastError = NoErr,
                      !.publishOkCount = usr.ok, !.publishFailedCount = 0,
                      !.publishStartedAt = NullTs,
                      !.lockOwner = NoOwner, !.lockExpiresAt = NullTs]
       ELSE [@ EXCEPT !.status = "queued", !.phase = "generating", !.lastError = NoErr,
                      !.okCount = usr.ok, !.failedCount = 0,
                      !.startedAt = NullTs,
                      !.lockOwner = NoOwner, !.lockExpiresAt = NullTs]]
  /\ queue' = enqueueSeoJob(queue, usr.job, IF usr.isPublish THEN "publish" ELSE "generate")
  /\ usr' = IdleUsr
  /\ UNCHANGED <<item, userOps>> /\ UNCHANGED UsrFrame

\* Route action retry_job_generate: one $transaction, then enqueueSeoJob
RetryJobGenerate(j) ==
  /\ CanRequest(j)
  /\ item' = UpdateItems(j, LAMBDA r : r.status # "success",
                LAMBDA r : [r EXCEPT !.status = "queued", !.error = NoErr])
  /\ job' = [job EXCEPT ![j] = [@ EXCEPT
       !.phase = "generating", !.status = "queued", !.startedAt = Now,
       !.okCount = 0, !.failedCount = 0, !.lastError = NoErr, !.lastHeartbeatAt = Now]]
  /\ queue' = enqueueSeoJob(queue, j, "generate")
  /\ userOps' = userOps + 1
  /\ UNCHANGED usr /\ UNCHANGED UsrFrame

\* Route action retry_job_publish: one $transaction, then enqueueSeoJob
RetryJobPublish(j) ==
  /\ CanRequest(j)
  /\ item' = UpdateItems(j, LAMBDA r : r.publishStatus \in {"failed", "queued", "running"},
                LAMBDA r : [r EXCEPT !.publishStatus = "queued", !.publishError = NoErr])
  /\ job' = [job EXCEPT ![j] = [@ EXCEPT
       !.phase = "publishing", !.status = "queued", !.publishStartedAt = Now,
       !.publishOkCount = 0, !.publishFailedCount = 0, !.lastError = NoErr,
       !.lastHeartbeatAt = Now]]
  /\ queue' = enqueueSeoJob(queue, j, "publish")
  /\ userOps' = userOps + 1
  /\ UNCHANGED usr /\ UNCHANGED UsrFrame

\* The items a retry_failed_* request names: the posted ids, or with none
\* posted the items that are failed now.
RetryIds(j, posted, Failed(_)) ==
  IF posted # {} THEN posted ELSE {i \in ItemIds(j) : Failed(item[j][i])}

\* Route action retry_failed_publish: ids and the count of the failed among them
RetryFailedPublishBegin(j, posted) ==
  /\ CanRequest(j)
  /\ posted \subseteq ItemIds(j)
  /\ LET ids == RetryIds(j, posted, LAMBDA r : r.publishStatus = "failed") IN
       /\ ids # {}
       /\ usr' = [Begin(j, "retry_failed_publish", "rfpTx") EXCEPT !.ids = ids,
                    !.n = Cardinality({i \in ids : item[j][i].publishStatus = "failed"})]
  /\ userOps' = userOps + 1
  /\ UNCHANGED <<job, item, queue>> /\ UNCHANGED UsrFrame

\* Route action retry_failed_publish: the $transaction and enqueueSeoJob
RetryFailedPublishTx ==
  /\ usr.pc = "rfpTx"
  /\ item' = [item EXCEPT ![usr.job] = [i \in Items |->
       IF i \in usr.ids
       THEN [item[usr.job][i] EXCEPT !.publishStatus = "queued", !.publishError = NoErr,
                                     !.publishedAt = FALSE]
       ELSE item[usr.job][i]]]
  /\ job' = [job EXCEPT ![usr.job] = [@ EXCEPT
       !.status = "queued", !.phase = "publishing", !.publishStartedAt = Now,
       !.lastError = NoErr,
       !.publishFailedCount = IF usr.n # 0 THEN @ - usr.n ELSE @]]
  /\ queue' = enqueueSeoJob(queue, usr.job, "publish")
  /\ usr' = IdleUsr
  /\ UNCHANGED userOps /\ UNCHANGED UsrFrame

\* Route action retry_failed_generate: ids and the count of the failed among them
RetryFailedGenerateBegin(j, posted) ==
  /\ CanRequest(j)
  /\ posted \subseteq ItemIds(j)
  /\ LET ids == RetryIds(j, posted, LAMBDA r : r.status = "failed") IN
       /\ ids # {}
       /\ usr' = [Begin(j, "retry_failed_generate", "rfgTx") EXCEPT !.ids = ids,
                    !.n = Cardinality({i \in ids : item[j][i].status = "failed"})]
  /\ userOps' = userOps + 1
  /\ UNCHANGED <<job, item, queue>> /\ UNCHANGED UsrFrame

\* Route action retry_failed_generate: the $transaction and enqueueSeoJob
RetryFailedGenerateTx ==
  /\ usr.pc = "rfgTx"
  /\ item' = [item EXCEPT ![usr.job] = [i \in Items |->
       IF i \in usr.ids
       THEN [item[usr.job][i] EXCEPT !.status = "queued", !.error = NoErr,
                                     !.finishedAt = FALSE]
       ELSE item[usr.job][i]]]
  /\ job' = [job EXCEPT ![usr.job] = [@ EXCEPT
       !.status = "queued", !.phase = "generating", !.startedAt = Now,
       !.lastError = NoErr,
       !.failedCount = IF usr.n # 0 THEN @ - usr.n ELSE @]]
  /\ queue' = enqueueSeoJob(queue, usr.job, "generate")
  /\ usr' = IdleUsr
  /\ UNCHANGED userOps /\ UNCHANGED UsrFrame

\* What start_publish_all and publish_selected write on the job row.
PublishRequested(r) ==
  [r EXCEPT !.phase = "publishing", !.status = "queued", !.publishStartedAt = Now,
            !.publishOkCount = 0, !.publishFailedCount = 0, !.lastError = NoErr]

\* Route action start_publish_all: updateMany(every item -> publishStatus queued)
StartPublishAllItems(j) ==
  /\ CanRequest(j)
  /\ item' = UpdateItems(j, LAMBDA r : TRUE,
                LAMBDA r : [r EXCEPT !.publishStatus = "queued", !.publishError = NoErr,
                                     !.publishedAt = FALSE])
  /\ usr' = Begin(j, "start_publish_all", "publishJob")
  /\ userOps' = userOps + 1
  /\ UNCHANGED <<job, queue>> /\ UNCHANGED UsrFrame

\* Route action publish_selected: the $transaction that skips every item and
\* queues the selected ones
PublishSelectedItems(j, sel) ==
  /\ CanRequest(j)
  /\ sel # {} /\ sel \subseteq ItemIds(j)
  /\ item' = [item EXCEPT ![j] = [i \in Items |->
       IF i \notin ItemIds(j) THEN item[j][i]
       ELSE IF i \in sel
       THEN [item[j][i] EXCEPT !.publishStatus = "queued", !.publishError = NoErr,
                               !.publishedAt = FALSE]
       ELSE [item[j][i] EXCEPT !.publishStatus = "skipped", !.publishError = NoErr]]]
  /\ usr' = Begin(j, "publish_selected", "publishJob")
  /\ userOps' = userOps + 1
  /\ UNCHANGED <<job, queue>> /\ UNCHANGED UsrFrame

\* start_publish_all / publish_selected: seoJob.update, enqueueSeoJob(jobId, "publish")
PublishJob ==
  /\ usr.pc = "publishJob"
  /\ job' = [job EXCEPT ![usr.job] = PublishRequested(@)]
  /\ queue' = enqueueSeoJob(queue, usr.job, "publish")
  /\ usr' = IdleUsr
  /\ UNCHANGED <<item, userOps>> /\ UNCHANGED UsrFrame

\* ------------------------------------------------------------ specifications
\* The processor around a phase: locks, dispatch, release.
DispatchStep(w) ==
  \/ acquireShopLock(w) \/ lockJob(w) \/ Dispatch(w)
  \/ Finally(w) \/ releaseShopLock(w)

HeartbeatStep(w) == TouchLock(w) \/ RefreshGet(w) \/ RefreshExpire(w)

LimitStep(w) == LimitItems(w) \/ LimitJob(w)

GenerateStep(w) ==
  \/ GenStart(w) \/ GenFind(w) \/ GenHead(w) \/ GenRun(w)
  \/ (\E ok \in BOOLEAN : GenCall(w, ok)) \/ GenCount(w)
  \/ GenFinalCheck(w) \/ GenFinalize(w)

PublishStep(w) ==
  \/ PubStart(w) \/ PubFind(w) \/ PubHead(w) \/ PubRun(w)
  \/ (\E ok \in BOOLEAN : PubCall(w, ok)) \/ PubCount(w)
  \/ PubFinalCheck(w) \/ PubFinalize(w)

Recover == RecoverFind \/ RecoverItems \/ RecoverJob

Cancel(j) == CancelBegin(j) \/ CancelItems \/ CancelCount \/ CancelJob

RetryFailed(j) ==
  (\E k \in {"null", "generate", "publish"} : RetryBegin(j, k))
    \/ RetryItems \/ RetryCount \/ RetryJob

RouteRetry(j) ==
  \/ RetryJobGenerate(j) \/ RetryJobPublish(j)
  \/ (\E ids \in SUBSET Items : RetryFailedPublishBegin(j, ids)) \/ RetryFailedPublishTx
  \/ (\E ids \in SUBSET Items : RetryFailedGenerateBegin(j, ids)) \/ RetryFailedGenerateTx

RoutePublish(j) ==
  \/ StartPublishAllItems(j)
  \/ (\E sel \in SUBSET Items : PublishSelectedItems(j, sel))
  \/ PublishJob

\* One job, one worker process and the web user.
Next ==
  \/ (\E n \in Items : StartGenerate("J1", n))
  \/ (\E k \in Kinds : Deliver("W1", k, "J1"))
  \/ DispatchStep("W1") \/ HeartbeatStep("W1") \/ GenerateStep("W1") \/ PublishStep("W1")
  \/ Cancel("J1") \/ RetryFailed("J1") \/ RouteRetry("J1") \/ RoutePublish("J1")

Spec == Init /\ [][Next]_vars

\* A live worker reaches its next heartbeat before the shop lock's TTL runs
\* out (the TTL is chosen above the longest pause between two heartbeats).
TimelyRefresh ==
  \A w \in Workers :
     (shopLock.owner = w /\ wk[w].pc \notin Down) => shopLock.age + 1 < ShopLockTtl

TimelyTick == TimelyRefresh /\ Tick

\* Two generate jobs of one shop, one worker process each; the first process
\* may be killed; time passes and the recovery timer runs.
NextTenant ==
  \/ (\E j \in Jobs : StartGenerate(j, 1))
  \/ Deliver("W1", "generate", "J1")
  \/ Deliver("W2", "generate", "J2")
  \/ (\E w \in Workers : DispatchStep(w) \/ HeartbeatStep(w) \/ GenerateStep(w))
  \/ Crash("W1")
  \/ Stalled("W1")
  \/ TimelyTick
  \/ Recover

SpecTenant == Init /\ [][NextTenant]_vars

RunningJobs == {j \in Jobs : job[j].exists /\ job[j].status = "running"}

\* C1: in every reachable state at most one job of the tenant has status
\* Running, also after a worker crash, the expiry of the shop lock and
\* recovery ticks.
OneRunningJobPerTenant == Cardinality(RunningJobs) <= 1

\* C2: for every job, okCount + failedCount never exceeds total.
GenerateCountersWithinTotal ==
  \A j \in Jobs :
     job[j].exists => job[j].okCount + job[j].failedCount <= job[j].total

\* C3: for every job, publishOkCount + publishFailedCount never exceeds the
\* number of its items whose publishStatus is Success or Failed.
PublishCountersWithinItems ==
  \A j \in Jobs :
     job[j].exists =>
        job[j].publishOkCount + job[j].publishFailedCount
          <= CountItems(j, LAMBDA r : r.publishStatus \in {"success", "failed"})

\* C4: once a job is Cancelled, no step sets its status to Running or Success.
CancelledStaysCancelled ==
  [][\A j \in Jobs :
        job[j].status = "cancelled" => job'[j].status \notin {"running", "success"}]_vars

\* One job created without a reservation, two worker processes, the first of
\* which may be killed at any step; the queue redelivers its stalled message.
NextCrash ==
  \/ (\E n \in 1..NumItems : CreateUnreserved("J1", n))
  \/ (\E w \in Workers : Deliver(w, "generate", "J1"))
  \/ (\E w \in Workers : DispatchStep(w) \/ MarkReserved(w) \/ HeartbeatStep(w)
                           \/ GenerateStep(w))
  \/ Crash("W1")
  \/ Stalled("W1")
  \/ TimelyTick

SpecCrash == Init /\ [][NextCrash]_vars

\* C5: over a job's lifetime the usage counter is incremented on its behalf
\* at most once, whatever step of handleJob a worker crashes at and however
\* often the message is redelivered.
ReservedAtMostOnce == \A j \in Jobs : reservedFor[j] <= 1

\* One job created without a reservation for a shop at or near its limit,
\* handled by one worker with no user request in flight, while time passes.
NextLimit ==
  \/ (\E n \in 1..NumItems : CreateUnreserved("J1", n))
  \/ Deliver("W1", "generate", "J1")
  \/ DispatchStep("W1")
  \/ LimitStep("W1")
  \/ MarkReserved("W1")
  \/ HeartbeatStep("W1")
  \/ GenerateStep("W1")
  \/ TimelyTick

SpecLimit == InitNearLimit /\ [][NextLimit]_vars

\* handleJob has returned (its finally has run) after a denied reservation.
ReturnedDenied(w) == wk[w].pc = "relShop" /\ wk[w].denied

\* C8: when the dispatcher's reservation for an unreserved generating job is
\* denied, then once handleJob has returned every item is Failed, the job is
\* Failed, the usage counter is what it was, the lease is cleared and nothing
\* was sent to the generator or the store.
LimitDeniedOutcome ==
  \A w \in Workers :
     ReturnedDenied(w) =>
        LET j == Cur(w) IN
          /\ \A i \in ItemIds(j) : item[j][i].status = "failed"
          /\ job[j].status = "failed"
          /\ used = wk[w].usedBefore
          /\ job[j].lockOwner = NoOwner
          /\ job[j].lockExpiresAt = NullTs
          /\ ~wk[w].sent

\* A job of two items denied with one unit of the allowance left.
LimitDeniedReached ==
  \E w \in Workers :
     /\ ReturnedDenied(w)
     /\ used = FreeLimit - 1
     /\ Cardinality(ItemIds(Cur(w))) = 2

\* C9: the items' transition to Failed on a denied reservation is atomic with
\* the job's: no state has items failed by the limit while the job is not yet
\* Failed.
LimitFailureAtomic ==
  \A j \in Jobs :
     (\E i \in ItemIds(j) : item[j][i].status = "failed" /\ item[j][i].error = "limit")
        => job[j].status = "failed"

\* ------------------------------------------------- concurrent reservations
\* The counts the callers ask for: nothing, one, all of the allowance.
CallCounts == {0, 1, FreeLimit}

RECURSIVE SumCalls(_)
SumCalls(C) ==
  IF C = {} THEN 0
  ELSE LET c == CHOOSE x \in C : TRUE IN txn[c].calls + SumCalls(C \ {c})

UsageFrame == <<job, item, shopLock, queue, wk, rec, usr, reservedFor, userOps, bullJobs, call>>

\* reserveFreeUsageMonthly up to its loop: the early return for a count of 0,
\* else the first attempt.
CallReserve(c, n) ==
  /\ txn[c].pc = "idle"
  /\ SumCalls(Callers) < MaxCalls
  /\ IF SafeCount(n) = 0
     THEN LET r == NothingToReserve(used, FreeLimit) IN
          txn' = [txn EXCEPT ![c] = [@ EXCEPT !.pc = "done", !.count = n,
                     !.result = "ok", !.repUsed = r.used, !.repRemaining = r.remaining,
                     !.before = used, !.wrote = r.write, !.calls = @ + 1]]
     ELSE txn' = [txn EXCEPT ![c] = [@ EXCEPT !.pc = "begin", !.count = SafeCount(n),
                     !.attempt = 1, !.calls = @ + 1]]
  /\ UNCHANGED <<used, usageVer>> /\ UNCHANGED UsageFrame

\* prisma.$transaction(..., Serializable): the transaction's snapshot, taken
\* by its upsert and read by its findUnique.
TxBegin(c) ==
  /\ txn[c].pc = "begin"
  /\ txn' = [txn EXCEPT ![c].pc = "body", ![c].ver = usageVer, ![c].read = used]
  /\ UNCHANGED <<used, usageVer>> /\ UNCHANGED UsageFrame

\* TxCommit without the isolation level: the write lands whatever was
\* committed since the snapshot.
TxCommitReadCommitted(c) ==
  /\ txn[c].pc = "body"
  /\ LET r == ReserveTx(txn[c].read, txn[c].count, FreeLimit) IN
       /\ used' = r.write
       /\ usageVer' = usageVer + 1
       /\ txn' = [txn EXCEPT ![c] = [@ EXCEPT !.pc = "done",
                    !.result = IF r.ok THEN "ok" ELSE "denied",
                    !.repUsed = r.used, !.repRemaining = r.remaining,
                    !.before = txn[c].read, !.wrote = r.write,
                    !.granted = IF r.ok THEN @ + txn[c].count ELSE @]]
  /\ UNCHANGED UsageFrame

\* The end of the transaction body.  It commits when no other transaction
\* has committed a write of the row since its snapshot; otherwise the
\* database raises a serialization failure and the loop retries after its
\* backoff, or rethrows on attempt MAX_RETRIES.
TxCommit(c) ==
  /\ txn[c].pc = "body"
  /\ IF usageVer = txn[c].ver
     THEN LET r == ReserveTx(txn[c].read, txn[c].count, FreeLimit) IN
          /\ used' = r.write
          /\ usageVer' = usageVer + 1
          /\ txn' = [txn EXCEPT ![c] = [@ EXCEPT !.pc = "done",
                       !.result = IF r.ok THEN "ok" ELSE "denied",
                       !.repUsed = r.used, !.repRemaining = r.remaining,
                       !.before = txn[c].read, !.wrote = r.write,
                       !.granted = IF r.ok THEN @ + txn[c].count ELSE @]]
     ELSE /\ txn' = IF txn[c].attempt = MAX_RETRIES
                    THEN [txn EXCEPT ![c].pc = "done", ![c].result = "thrown"]
                    ELSE [txn EXCEPT ![c].pc = "begin", ![c].attempt = @ + 1]
          /\ UNCHANGED <<used, usageVer>>
  /\ UNCHANGED UsageFrame

\* The caller takes the result (or the exception) and may call again.
Return(c) ==
  /\ txn[c].pc = "done"
  /\ txn' = [txn EXCEPT ![c] = [IdleTxn EXCEPT !.granted = txn[c].granted,
                                               !.calls = txn[c].calls]]
  /\ UNCHANGED <<used, usageVer>> /\ UNCHANGED UsageFrame

NextUsage ==
  \/ (\E c \in Callers, n \in CallCounts : CallReserve(c, n))
  \/ (\E c \in Callers : TxBegin(c))
  \/ (\E c \in Callers : TxCommit(c))
  \/ (\E c \in Callers : Return(c))

SpecUsage == Init /\ [][NextUsage]_vars

RECURSIVE SumGranted(_)
SumGranted(C) ==
  IF C = {} THEN 0
  ELSE LET c == CHOOSE x \in C : TRUE IN txn[c].granted + SumGranted(C \ {c})

\* C6: whatever the interleaving of the callers' transactions, the month's
\* counter equals the sum of the counts of the calls that returned ok and
\* never exceeds the limit.
UsedIsSumOfGrants == used = SumGranted(Callers) /\ used <= FreeLimit

\* Two callers have both been granted, one of them after a serialization
\* failure and a retry.
ConflictRetriedAndGranted ==
  \E c, d \in Callers :
     /\ c # d
     /\ txn[c].pc = "done" /\ txn[c].result = "ok" /\ txn[c].attempt > 1
     /\ txn[d].granted > 0

\* A call has returned a result (not an exception).
Answered(c) == txn[c].pc = "done" /\ txn[c].result \in {"ok", "denied"}

\* What the call must have done for counter value u and count n when its
\* transaction ran.
TxContract(c, u, n) ==
  IF u + n > FreeLimit
  THEN /\ txn[c].result = "denied"
       /\ txn[c].repUsed = u
       /\ txn[c].wrote = u
  ELSE /\ txn[c].result = "ok"
       /\ txn[c].wrote = u + n
       /\ txn[c].repUsed = u + n
       /\ txn[c].repRemaining = FreeLimit - txn[c].repUsed

\* C7 as stated: for every n >= 0, n = 0 included, a call on counter value
\* used is denied with the counter reported and unchanged when used + n > L,
\* and otherwise sets the counter to used + n and reports used + n and
\* L - (used + n).
ReserveContractEveryCount ==
  \A c \in Callers : Answered(c) => TxContract(c, txn[c].before, txn[c].count)

\* C7 amended: the contract holds for every n >= 1; a call with n = 0 returns
\* ok with used reported as 0 and remaining as L, whatever the counter is,
\* and leaves the counter unchanged.
ReserveContract ==
  \A c \in Callers :
     Answered(c) =>
        IF txn[c].count >= 1
        THEN TxContract(c, txn[c].before, txn[c].count)
        ELSE /\ txn[c].result = "ok"
             /\ txn[c].repUsed = 0
             /\ txn[c].repRemaining = FreeLimit
             /\ txn[c].wrote = txn[c].before

\* A call with n = 0 has returned while the counter was above 0, and another
\* caller's request that exactly fills the allowance has been granted.
ZeroCountOnUsedCounter ==
  \E c, d \in Callers :
     /\ Answered(c) /\ txn[c].count = 0 /\ txn[c].before > 0
     /\ txn[d].granted > 0 /\ used = FreeLimit

\* ------------------------------------------------- crash and recovery
\* A live worker touches its lease before the lease's TTL runs out.
LeaseKept ==
  \A w \in Workers, j \in Jobs :
     (wk[w].pc \notin Down /\ job[j].exists /\ job[j].lockOwner = w)
        => job[j].lockExpiresAt + 1 < LeaseTtl

SteadyTick == LeaseKept /\ TimelyTick

\* A user who retries a job once it shows as failed.
RetryOnceFailed(j) == job[j].status = "failed" /\ RetryFailed(j)

\* One generate job on worker process W1, which may be killed; nobody else
\* takes the job's message over; a second process is up, so the recovery
\* timer keeps firing; time passes.
NextRecover ==
  \/ (\E n \in 1..NumItems : StartGenerate("J1", n))
  \/ Deliver("W1", "generate", "J1")
  \/ DispatchStep("W1")
  \/ HeartbeatStep("W1")
  \/ GenerateStep("W1")
  \/ Crash("W1")
  \/ Stalled("W1")
  \/ SteadyTick
  \/ Recover
  \/ RetryOnceFailed("J1")

\* Time passes, and setInterval keeps calling recoverStuckJobs.
SpecRecover ==
  Init /\ [][NextRecover]_vars /\ WF_vars(SteadyTick) /\ WF_vars(Recover)

\* The worker has been killed while its job is running in the generate
\* phase with the lease set.
CrashedInGenerate ==
  /\ wk["W1"].pc = "crashed"
  /\ job["J1"].status = "running"
  /\ job["J1"].phase = "generating"
  /\ job["J1"].lockOwner = "W1"

\* The job as recoverStuckJobs leaves it.
Recovered ==
  /\ job["J1"].status = "failed"
  /\ job["J1"].lastError = "recovered"
  /\ job["J1"].lockOwner = NoOwner
  /\ job["J1"].lockExpiresAt = NullTs
  /\ \A i \in ItemIds("J1") : item["J1"][i].status # "running"

\* C10: a worker crash in the generate phase leads, with the recovery timer
\* running, to the job Failed with its lease cleared and the item that was
\* Running Failed with the recovery reason; a user retry after that moves the
\* Failed items back to Queued, queues the job and leaves a generate message
\* in the queue.
CrashLeadsToRecovery ==
  /\ CrashedInGenerate ~> Recovered
  /\ \A i \in Items :
        (CrashedInGenerate /\ item["J1"][i].status = "running")
           ~> (Recovered /\ item["J1"][i].status = "failed"
                         /\ item["J1"][i].error = "recovered")
  /\ [][(usr.pc = "retryItems" /\ usr'.pc = "retryCount")
          => \A i \in ItemIds("J1") :
                item["J1"][i].status = "failed" => item'["J1"][i].status = "queued"]_vars
  /\ [][(usr.pc = "retryJob" /\ usr'.pc = "idle")
          => /\ job'["J1"].status = "queued"
             /\ queue'[MsgId("generate", "J1")] # "none"]_vars

\* The job recovered after a crash in the middle of an item.
RecoveredAfterCrash ==
  /\ wk["W1"].pc \in Down
  /\ wk["W1"].crashedAt = "genCall"
  /\ Recovered
  /\ \E i \in ItemIds("J1") : item["J1"][i].status = "failed" /\ item["J1"][i].error = "recovered"

\* ------------------------------------------------- recovery condition
\* FindStuck as specified: running, lease expired, and the heartbeat stale
\* or no start timestamp at all.
StuckAsSpecified(r) ==
  /\ r.status = "running"
  /\ Before(r.lockExpiresAt, LeaseTtl)
  /\ \/ Before(r.lastHeartbeatAt, StuckAfter)
     \/ (r.startedAt = NullTs /\ r.publishStartedAt = NullTs /\ r.lastHeartbeatAt = NullTs)

\* C11: recoverStuckJobs picks a job to fail only if, at that tick, the job
\* is Running, its lease has expired and its heartbeat is older than
\* staleAfter (or it has no start timestamp at all); a Running job with a
\* heartbeat within staleAfter is never picked, however long ago it started.
RecoveryOnlyWhenHeartbeatStale ==
  [][(rec.pc = "idle" /\ rec'.pc = "items")
       => \A k \in 1..Len(rec'.stuck) : StuckAsSpecified(job[rec'.stuck[k].id])]_vars

\* ------------------------------------------------------------- job lease
\* One job and one worker with every operation that writes the lease: the
\* worker's lockJob, touchLock and release, the recovery loop, and the user's
\* cancel and retry.
NextLease ==
  \/ (\E n \in 1..NumItems : StartGenerate("J1", n))
  \/ Deliver("W1", "generate", "J1")
  \/ DispatchStep("W1")
  \/ HeartbeatStep("W1")
  \/ GenerateStep("W1")
  \/ TimelyTick
  \/ Recover
  \/ Cancel("J1")
  \/ RetryFailed("J1")

SpecLease == Init /\ [][NextLease]_vars

\* C12: in every reachable state a job's lockOwner is null exactly when its
\* lockExpiresAt is null, across lockJob, touchLock, the release in the
\* dispatcher, cancelJobForShop, retryFailedForJob and recoverStuckJobs.
LeaseFieldsPaired ==
  \A j \in Jobs : (job[j].lockOwner = NoOwner) <=> (job[j].lockExpiresAt = NullTs)

\* The lease of a job has been taken by lockJob, renewed by touchLock, cleared
\* by the recovery loop, and the worker's release has run as well.
LeaseClearedByRecoveryAndRelease ==
  /\ job["J1"].lastError = "recovered"
  /\ job["J1"].lockOwner = NoOwner
  /\ job["J1"].lockExpiresAt = NullTs
  /\ job["J1"].lastHeartbeatAt # NullTs
  /\ wk["W1"].job = "J1"
  /\ wk["W1"].pc = "relShop"

\* ------------------------------------------------------ lease contention
\* The lease columns of a row: no lease, or an owner with the age of its last
\* renewal.
LeaseRows ==
  {[owner |-> NoOwner, at |-> NullTs]} \cup [owner : Workers, at : 0..AgeCap]

\* Two worker processes are each about to call lockJob for the same job, whose
\* row carries any lease: none, a live or lapsed one of either process.  The
\* Redis key of the shop is gone or names one of the two.
InitContend ==
  /\ \E n \in 1..NumItems, l \in LeaseRows :
       /\ job = [j \in Jobs |->
                   IF j = "J1"
                   THEN [NewJob(n, TRUE) EXCEPT !.lockOwner = l.owner,
                                                !.lockExpiresAt = l.at,
                                                !.lastHeartbeatAt = l.at]
                   ELSE NoJob]
       /\ item = [j \in Jobs |-> [i \in Items |->
                   IF j = "J1" /\ i <= n THEN NewItem ELSE NoItem]]
       /\ used = n
  /\ reservedFor = [j \in Jobs |-> IF j = "J1" THEN 1 ELSE 0]
  /\ shopLock \in {NoLock} \cup {[owner |-> w, age |-> Now] : w \in Workers}
  /\ queue = [m \in Kinds \X Jobs |-> IF m = MsgId("generate", "J1") THEN "active" ELSE "none"]
  /\ wk = [w \in Workers |-> [IdleWk EXCEPT !.pc = "lockJob", !.job = "J1",
             !.pre = [status |-> "queued", phase |-> "generating", usageReserved |-> TRUE]]]
  /\ rec = IdleRec
  /\ usr = IdleUsr
  /\ usageVer = 0
  /\ txn = [c \in Callers |-> IdleTxn]
  /\ userOps = 0
  /\ bullJobs = {}
  /\ call = NoCall

NextContend ==
  \/ (\E w \in Workers : lockJob(w) \/ Dispatch(w) \/ Finally(w) \/ releaseShopLock(w))
  \/ (\E w \in Workers : HeartbeatStep(w))
  \/ (\E w \in Workers : GenerateStep(w))
  \/ Tick

SpecContend == InitContend /\ [][NextContend]_vars

\* The acquire condition as specified
AcquirableAsSpecified(r, owner) ==
  \/ r.lockOwner = NoOwner
  \/ Before(r.lockExpiresAt, LeaseTtl)
  \/ r.lockOwner = owner

\* C13: lockJob(jobId, owner) acquires the lease if and only if the row's
\* lockOwner is null, or its lockExpiresAt is in the past, or lockOwner is
\* already owner; an acquire writes owner and a fresh expiry, and while another
\* owner's lease is unexpired the attempt returns false and leaves the row
\* unchanged.
LockJobContract ==
  [][\A w \in Workers :
       (wk[w].pc = "lockJob" /\ wk'[w].pc # "lockJob") =>
         LET r == job[Cur(w)]
             acquired == wk'[w].pc = "dispatch"
         IN /\ acquired <=> AcquirableAsSpecified(r, w)
            /\ acquired => job' = [job EXCEPT ![Cur(w)] =
                                     [r EXCEPT !.lockOwner = w, !.lockExpiresAt = Now,
                                               !.lastHeartbeatAt = Now]]
            /\ ~acquired => (job' = job /\ wk'[w].pc = "relShop")
            /\ (r.lockOwner \notin {NoOwner, w} /\ ~Before(r.lockExpiresAt, LeaseTtl))
                 => (~acquired /\ job' = job)]_vars

\* W1 holds a fresh lease on a job no phase has started on, and W2's lockJob
\* for the same job has returned false.
ContenderRefused ==
  /\ job["J1"].lockOwner = "W1"
  /\ job["J1"].lockExpiresAt = Now
  /\ job["J1"].status = "queued"
  /\ wk["W1"].pc = "dispatch"
  /\ wk["W2"].pc = "relShop"
  /\ wk["W2"].job = "J1"

\* The three lease columns of a job row
Lease(r) == <<r.lockOwner, r.lockExpiresAt, r.lastHeartbeatAt>>

\* C14: touchLock and the dispatcher's release, called by a worker that is
\* not the stored lockOwner, leave lockOwner, lockExpiresAt and
\* lastHeartbeatAt of the job unchanged.
NonOwnerLeaseNoOp ==
  [][\A w \in Workers :
       (/\ wk[w].pc \in {"genTouch", "pubTouch", "finally"}
        /\ wk'[w].pc # wk[w].pc
        /\ job[Cur(w)].lockOwner # w)
         => Lease(job'[Cur(w)]) = Lease(job[Cur(w)])]_vars

\* W2 took the lease over before the last tick and has done nothing since;
\* W1 started the phase after that tick, ran it to the end with its touchLock
\* calls and its release, and the lease is still W2's.
NonOwnerRanAndReleased ==
  /\ job["J1"].lockOwner = "W2"
  /\ job["J1"].lockExpiresAt = 1
  /\ job["J1"].startedAt = Now
  /\ job["J1"].status = "success"
  /\ job["J1"].okCount > 0
  /\ wk["W2"].pc = "dispatch"
  /\ wk["W1"].pc = "relShop"

\* ------------------------------------------------------------ both phases
\* A shop with one product left of this month's allowance.
InitOneLeft == InitRest /\ used = FreeLimit - 1

\* One job created without a reservation, taken through the generate phase
\* (or the worker's limit enforcement), published by the user and taken
\* through the publish phase, with time passing and the recovery loop running.
NextPhases ==
  \/ (\E n \in 1..NumItems : CreateUnreserved("J1", n))
  \/ (\E k \in Kinds : Deliver("W1", k, "J1"))
  \/ DispatchStep("W1")
  \/ LimitStep("W1")
  \/ MarkReserved("W1")
  \/ HeartbeatStep("W1")
  \/ GenerateStep("W1")
  \/ PublishStep("W1")
  \/ StartPublishAllItems("J1")
  \/ PublishJob
  \/ TimelyTick
  \/ Recover

SpecPhases == InitOneLeft /\ [][NextPhases]_vars

\* Positions of a worker inside processGenerate and the limit enforcement of
\* handleJob, and inside processPublish
GenPcs == {"limitItems", "limitJob", "markReserved", "genStart", "genFind", "genHead",
           "genTouch", "genRefGet", "genRefExp", "genRun", "genCall", "genCountOk",
           "genCountFail", "genFinalCheck", "genFinalize"}
PubPcs == {"pubStart", "pubFind", "pubHead", "pubTouch", "pubRefGet", "pubRefExp",
           "pubRun", "pubCall", "pubCountOk", "pubCountFail", "pubFinalCheck",
           "pubFinalize"}

StatusOf(j) == [i \in Items |-> item[j][i].status]
PublishStatusOf(j) == [i \in Items |-> item[j][i].publishStatus]

\* C15: no step of the publish phase, the recovery of a publishing job
\* included, changes the generate status of any item, and no step of the
\* generate phase, the recovery of a generating job and the limit enforcement
\* of the dispatcher included, changes the publishStatus of any item.
PhasesKeepTheOtherColumn ==
  [][/\ \A w \in Workers :
          (wk[w].pc \in GenPcs /\ wk'[w] # wk[w])
            => \A j \in Jobs : PublishStatusOf(j)' = PublishStatusOf(j)
     /\ \A w \in Workers :
          (wk[w].pc \in PubPcs /\ wk'[w] # wk[w])
            => \A j \in Jobs : StatusOf(j)' = StatusOf(j)
     /\ (rec.pc = "items" /\ rec' # rec)
            => IF Head(rec.stuck).phase = "publishing"
               THEN \A j \in Jobs : StatusOf(j)' = StatusOf(j)
               ELSE \A j \in Jobs : PublishStatusOf(j)' = PublishStatusOf(j)]_vars

\* The recovery loop has failed a publishing job and its running item in the
\* publish column, and the item's generate status is still Success.
PublishRecoveredStatusKept ==
  /\ job["J1"].phase = "publishing"
  /\ job["J1"].status = "failed"
  /\ job["J1"].lastError = "recovered"
  /\ \E i \in ItemIds("J1") :
       /\ item["J1"][i].publishStatus = "failed"
       /\ item["J1"][i].publishError = "recovered"
       /\ item["J1"][i].status = "success"

\* ------------------------------------------------------- item timestamps
\* One job of one item with its worker, the user's cancel, retries and
\* publish requests, time and the recovery loop.
NextItems ==
  \/ StartGenerate("J1", 1)
  \/ (\E k \in Kinds : Deliver("W1", k, "J1"))
  \/ DispatchStep("W1")
  \/ HeartbeatStep("W1")
  \/ GenerateStep("W1")
  \/ PublishStep("W1")
  \/ Cancel("J1")
  \/ RetryFailed("J1")
  \/ RouteRetry("J1")
  \/ RoutePublish("J1")
  \/ TimelyTick
  \/ Recover

SpecItems == Init /\ [][NextItems]_vars

\* C16: every item whose status is Success or Failed has a finishedAt, and
\* every item whose publishStatus is Success has a publishedAt, in every
\* state reached through worker steps, cancel, recovery, publish selection
\* and the retry actions.
TerminalItemsHaveTimestamps ==
  \A j \in Jobs : \A i \in ItemIds(j) :
    /\ item[j][i].status \in {"success", "failed"} => item[j][i].finishedAt
    /\ item[j][i].publishStatus = "success" => item[j][i].publishedAt

\* An item that was published after a retry request, sent to generation by
\* another retry, and failed there by the recovery loop.
PublishedItemRecovered ==
  \E i \in ItemIds("J1") :
    /\ item["J1"][i].status = "failed"
    /\ item["J1"][i].error = "recovered"
    /\ item["J1"][i].finishedAt
    /\ item["J1"][i].publishStatus = "success"
    /\ item["J1"][i].publishedAt

\* ------------------------------------------------------ one generate run
\* A new job is delivered once and its generate phase runs with nobody
\* cancelling it and no process dying, while time passes and the recovery
\* loop runs.
NextGenRun ==
  \/ (\E n \in 1..NumItems : StartGenerate("J1", n))
  \/ Deliver("W1", "generate", "J1")
  \/ DispatchStep("W1")
  \/ HeartbeatStep("W1")
  \/ GenerateStep("W1")
  \/ TimelyTick
  \/ Recover

\* A worker process that is up takes its next step.
WorkerRuns(w) == DispatchStep(w) \/ HeartbeatStep(w) \/ GenerateStep(w) \/ PublishStep(w)

SpecGenRun == Init /\ [][NextGenRun]_vars /\ WF_vars(WorkerRuns("W1"))

GenRunStarted == wk["W1"].pc = "genFind"

GenRunEnded ==
  /\ wk["W1"].pc = "finally"
  /\ job["J1"].phase = "generated"
  /\ job["J1"].status = "success"
  /\ \A i \in ItemIds("J1") : item["J1"][i].status \in {"success", "failed"}

\* One item of the run: the outcome is written to the item, the matching
\* counter goes up by one, and the loop goes on with the next item.
GenItemCounted ==
  /\ (wk["W1"].pc = "genCall" /\ wk'["W1"].pc # "genCall")
       => /\ wk'["W1"].pc \in {"genCountOk", "genCountFail"}
          /\ item'["J1"][Head(wk["W1"].todo)].status =
               (IF wk'["W1"].pc = "genCountOk" THEN "success" ELSE "failed")
          /\ \A i \in Items \ {Head(wk["W1"].todo)} : item'["J1"][i] = item["J1"][i]
  /\ (wk["W1"].pc = "genCountOk" /\ wk'["W1"].pc # "genCountOk")
       => /\ job'["J1"].okCount = job["J1"].okCount + 1
          /\ job'["J1"].failedCount = job["J1"].failedCount
          /\ wk'["W1"].pc = "genHead" /\ wk'["W1"].todo = Tail(wk["W1"].todo)
  /\ (wk["W1"].pc = "genCountFail" /\ wk'["W1"].pc # "genCountFail")
       => /\ job'["J1"].failedCount = job["J1"].failedCount + 1
          /\ job'["J1"].okCount = job["J1"].okCount
          /\ job'["J1"].lastError = "gen"
          /\ wk'["W1"].pc = "genHead" /\ wk'["W1"].todo = Tail(wk["W1"].todo)

\* The end of the run: every item has its outcome, the counters add up to the
\* items, and with no failure okCount is the number of items.
GenRunTotals ==
  (wk["W1"].pc = "genFinalize" /\ wk'["W1"].pc = "finally")
    => /\ job'["J1"].phase = "generated" /\ job'["J1"].status = "success"
       /\ \A i \in ItemIds("J1") : item["J1"][i].status \in {"success", "failed"}
       /\ job'["J1"].okCount = CountItems("J1", LAMBDA r : r.status = "success")
       /\ job'["J1"].failedCount = CountItems("J1", LAMBDA r : r.status = "failed")
       /\ (\A i \in ItemIds("J1") : item["J1"][i].status = "success")
            => (job'["J1"].okCount = Cardinality(ItemIds("J1")) /\ job'["J1"].failedCount = 0)

\* C17: a generate run that is neither cancelled nor crashed ends with the job
\* in phase Generated and status Success whatever the outcomes of its items;
\* every eligible item is processed once and ends Success with okCount + 1 or
\* Failed with failedCount + 1 and lastError updated, a failed item does not
\* stop the ones after it, and when all succeed okCount is the number of
\* items and failedCount is 0.
GenerateRunCompletes ==
  /\ GenRunStarted ~> GenRunEnded
  /\ [][GenItemCounted /\ GenRunTotals]_vars

\* A run of two items has ended Generated / Success with its first item
\* failed and its second succeeded.
FailedThenSucceeded ==
  /\ GenRunEnded
  /\ item["J1"][1].status = "failed"
  /\ item["J1"][2].status = "success"
  /\ job["J1"].okCount = 1
  /\ job["J1"].failedCount = 1

\* ------------------------------------------------------- one publish run
\* The user asks for publishing once, when the generate phase has finished.
PublishOnceGenerated(j) ==
  /\ job[j].phase = "generated"
  /\ job[j].status = "success"
  /\ RoutePublish(j)

\* A job is generated, published on request and taken through one publish
\* run with nobody cancelling it and no process dying, while time passes and
\* the recovery loop runs.
NextPubRun ==
  \/ (\E n \in 1..NumItems : StartGenerate("J1", n))
  \/ (\E k \in Kinds : Deliver("W1", k, "J1"))
  \/ DispatchStep("W1")
  \/ HeartbeatStep("W1")
  \/ GenerateStep("W1")
  \/ PublishStep("W1")
  \/ PublishOnceGenerated("J1")
  \/ TimelyTick
  \/ Recover

SpecPubRun == Init /\ [][NextPubRun]_vars /\ WF_vars(WorkerRuns("W1"))

PubRunStarted == wk["W1"].pc = "pubFind"

PubRunEnded ==
  /\ wk["W1"].pc = "finally"
  /\ job["J1"].phase = "published"
  /\ job["J1"].status = "success"
  /\ \A i \in ItemIds("J1") : item["J1"][i].publishStatus \notin {"queued", "running"}

\* The StoreAPI write of one item fails for good: that item's publishStatus
\* becomes failed and nothing else of any item changes, publishFailedCount goes
\* up by one, and the loop goes on with the next item.
PubItemFailureIsolated ==
  /\ (wk["W1"].pc = "pubCall" /\ wk'["W1"].pc = "pubCountFail")
       => /\ item'["J1"][Head(wk["W1"].todo)] =
               [item["J1"][Head(wk["W1"].todo)] EXCEPT !.publishStatus = "failed",
                                                        !.publishError = "pub"]
          /\ \A i \in Items \ {Head(wk["W1"].todo)} : item'["J1"][i] = item["J1"][i]
          /\ job' = job
  /\ (wk["W1"].pc = "pubCountFail" /\ wk'["W1"].pc # "pubCountFail")
       => /\ job'["J1"].publishFailedCount = job["J1"].publishFailedCount + 1
          /\ job'["J1"].publishOkCount = job["J1"].publishOkCount
          /\ job'["J1"].status = job["J1"].status
          /\ wk'["W1"].pc = "pubHead" /\ wk'["W1"].todo = Tail(wk["W1"].todo)
          /\ item' = item

\* The end of the run: Published / Success, no item left queued or running,
\* and publishFailedCount counts the failed items.
PubRunTotals ==
  (wk["W1"].pc = "pubFinalize" /\ wk'["W1"].pc = "finally")
    => /\ job'["J1"].phase = "published" /\ job'["J1"].status = "success"
       /\ \A i \in ItemIds("J1") : item["J1"][i].publishStatus \notin {"queued", "running"}
       /\ job'["J1"].publishFailedCount =
            CountItems("J1", LAMBDA r : r.publishStatus = "failed")
       /\ (\E i \in ItemIds("J1") : item["J1"][i].publishStatus = "failed")
            => job'["J1"].publishFailedCount > 0

\* C18: in the publish phase a permanent StoreAPI failure on one item sets
\* only that item's publishStatus to Failed and increments publishFailedCount
\* by 1; every other eligible item is still processed, and the run ends with
\* the job in phase Published and status Success with a non-zero
\* publishFailedCount.
PublishFailureIsolated ==
  /\ PubRunStarted ~> PubRunEnded
  /\ [][PubItemFailureIsolated /\ PubRunTotals]_vars

\* A publish run of two items has ended Published / Success with its first
\* item failed and its second published.
PublishFailedThenSucceeded ==
  /\ PubRunEnded
  /\ item["J1"][1].publishStatus = "failed"
  /\ item["J1"][2].publishStatus = "success"
  /\ job["J1"].publishOkCount = 1
  /\ job["J1"].publishFailedCount = 1

\* ------------------------------------------------------- tenant lock busy
\* Two generate jobs of one shop, one worker process each, nobody cancelling
\* and no process dying, while time passes.
NextBusy ==
  \/ (\E j \in Jobs, n \in 1..NumItems : StartGenerate(j, n))
  \/ Deliver("W1", "generate", "J1")
  \/ Deliver("W2", "generate", "J2")
  \/ (\E w \in Workers : DispatchStep(w))
  \/ (\E w \in Workers : HeartbeatStep(w))
  \/ (\E w \in Workers : GenerateStep(w))
  \/ TimelyTick

\* The broker delivers a message that is due to a worker that is free, and a
\* worker process that is up takes its next step.
SpecBusy ==
  /\ Init /\ [][NextBusy]_vars
  /\ WF_vars(Deliver("W1", "generate", "J1"))
  /\ WF_vars(Deliver("W2", "generate", "J2"))
  /\ WF_vars(WorkerRuns("W1"))
  /\ WF_vars(WorkerRuns("W2"))

\* J2 has been delivered to W2 while W1 holds the shop lock for J1.
DeliveredWhileBusy ==
  /\ wk["W2"].pc = "loaded" /\ wk["W2"].job = "J2"
  /\ wk["W1"].job = "J1"
  /\ shopLock.owner = "W1"

\* The delivery that finds the lock taken: the message goes back to the queue
\* and nothing of any job, item or the lock is touched.
BusyDeliveryDelayed ==
  \A w \in Workers :
    (wk[w].pc = "loaded" /\ wk'[w] # wk[w] /\ shopLock.owner \notin {NoOwner, w})
      => /\ queue' = [queue EXCEPT ![MsgId(wk[w].kind, Cur(w))] = "waiting"]
         /\ wk'[w] = IdleWk
         /\ job' = job /\ item' = item /\ shopLock' = shopLock

\* A worker is inside handleJob only while the shop lock names it.
InsideOnlyWithShopLock ==
  \A w \in Workers :
    wk[w].pc \notin {"idle", "loaded", "relShop"} => shopLock.owner = w

J2Processed == job["J2"].phase = "generated" /\ job["J2"].status = "success"

CountersNeverDecrease ==
  [][\A j \in Jobs :
       job[j].exists =>
         /\ job'[j].okCount >= job[j].okCount
         /\ job'[j].failedCount >= job[j].failedCount
         /\ job'[j].publishOkCount >= job[j].publishOkCount
         /\ job'[j].publishFailedCount >= job[j].publishFailedCount]_vars

\* ------------------------------------------------------- phases overlap
\* One job of one item; W1 takes its generate message and W2 its publish
\* message; the user may ask for publishing at any time; time passes freely,
\* so a worker may sit in one await (the sleep before a retry) for longer
\* than a TTL.
NextOverlap ==
  \/ StartGenerate("J1", 1)
  \/ Deliver("W1", "generate", "J1")
  \/ Deliver("W2", "publish", "J1")
  \/ (\E w \in Workers : DispatchStep(w))
  \/ (\E w \in Workers : HeartbeatStep(w))
  \/ GenerateStep("W1")
  \/ PublishStep("W2")
  \/ StartPublishAllItems("J1")
  \/ PublishJob
  \/ Tick

SpecOverlap == Init /\ [][NextOverlap]_vars

\* Positions inside processGenerate and inside processPublish
InProcessGenerate == GenPcs \ {"limitItems", "limitJob", "markReserved"}
InProcessPublish == PubPcs

\* C21: in no reachable state is one worker executing processGenerate for a
\* job while a worker executes processPublish for the same job, also when the
\* publish is requested while the generate phase is still running.
PhasesNeverOverlap ==
  \A w1, w2 \in Workers :
    ~(/\ wk[w1].pc \in InProcessGenerate
      /\ wk[w2].pc \in InProcessPublish
      /\ wk[w1].job = wk[w2].job)

\* ------------------------------------------------------- lease as a guard
\* The columns of a job the claim speaks of
JobState(r) ==
  <<r.status, r.phase, r.okCount, r.failedCount, r.publishOkCount, r.publishFailedCount>>

\* C22: a worker that no longer owns the lease of its job (cleared by cancel,
\* retry or recovery, or taken by another owner) changes nothing more of that
\* job's status, phase, counters or items.
WorkerWithoutLeaseWritesNothing ==
  [][\A w \in Workers :
       (/\ wk[w].pc \in GenPcs \cup PubPcs
        /\ wk'[w] # wk[w]
        /\ job[Cur(w)].lockOwner # w)
         => /\ JobState(job'[Cur(w)]) = JobState(job[Cur(w)])
            /\ item'[Cur(w)] = item[Cur(w)]]_vars

\* ------------------------------------------------------- cancel during a run
\* One job is created and delivered once; its generate phase runs while the
\* merchant cancels it at any point of the run.
NextCancel ==
  \/ (\E n \in 1..NumItems : StartGenerate("J1", n))
  \/ Deliver("W1", "generate", "J1")
  \/ DispatchStep("W1")
  \/ HeartbeatStep("W1")
  \/ GenerateStep("W1")
  \/ Cancel("J1")

SpecCancel == Init /\ [][NextCancel]_vars /\ WF_vars(WorkerRuns("W1"))

\* cancelJobForShop has written the job row (its last statement) at least once.
CancelCommitted == userOps > 1 \/ (userOps = 1 /\ usr.pc = "idle")

\* The worker is at the update that marks the next item Running, with k items
\* of its list still to process.
MarksNext(k) == wk["W1"].pc = "genRun" /\ Len(wk["W1"].todo) = k

\* C23: once cancelJobForShop has committed, the worker marks at most one
\* further item Running: if it is at the marking update of an item after the
\* commit, it never reaches the marking update of a later item of its list.
AtMostOneItemAfterCancel ==
  \A k \in 1..NumItems :
    [](CancelCommitted /\ MarksNext(k) => [](\A m \in 1..(k - 1) : ~MarksNext(m)))

\* ------------------------------------------------------- cancel on its own
\* No statement of cancelJobForShop is pending.
NoCancelRunning == usr.pc \notin {"cancelItems", "cancelCount", "cancelJob"}

\* The worker process stands still while cancelJobForShop runs.
WorkerWhileNoCancel(w) ==
  /\ NoCancelRunning
  /\ \/ (\E k \in Kinds : Deliver(w, k, "J1"))
     \/ DispatchStep(w) \/ HeartbeatStep(w) \/ GenerateStep(w) \/ PublishStep(w)

\* One job through both phases; the merchant cancels it between any two
\* statements of the worker, and the worker waits for the cancel to return.
NextCancelAlone ==
  \/ (\E n \in 1..NumItems : StartGenerate("J1", n))
  \/ WorkerWhileNoCancel("W1")
  \/ StartPublishAllItems("J1")
  \/ PublishJob
  \/ Cancel("J1")

SpecCancelAlone == Init /\ [][NextCancelAlone]_vars

\* The two updateMany of cancelJobForShop run as one step of the model.
CancelItemsRan == usr.pc = "cancelItems" /\ usr'.pc = "cancelCount"
\* The closing seoJob.update of cancelJobForShop.
CancelJobRan == usr.pc = "cancelJob" /\ usr'.pc = "idle"

\* What cancelJobForShop leaves on the job row.
CancelledJobRow(j) ==
  /\ job'[j].status = "cancelled"
  /\ job'[j].lockOwner = NoOwner /\ job'[j].lockExpiresAt = NullTs
  /\ job'[j].okCount = Cardinality({i \in ItemIds(j) : item'[j][i].status = "success"})
  /\ job'[j].failedCount = Cardinality({i \in ItemIds(j) : item'[j][i].status = "failed"})

\* A Queued or Running item is Failed with the cancel reason afterwards.
InFlightItemsFailed(j) ==
  \A i \in ItemIds(j) :
    item[j][i].status \in {"queued", "running"}
      => item'[j][i].status = "failed" /\ item'[j][i].error = "cancelled"

\* C24 as stated: a cancel that no worker step interleaves leaves the job
\* Cancelled with the lease cleared and okCount/failedCount equal to the item
\* counts, every Queued or Running item Failed with the cancel reason, and
\* every item that was Success or Failed the same row as before.
CancelLeavesFinishedItemsUnchanged ==
  /\ [][CancelItemsRan =>
          /\ InFlightItemsFailed(usr.job)
          /\ \A i \in ItemIds(usr.job) :
               item[usr.job][i].status \in {"success", "failed"}
                 => item'[usr.job][i] = item[usr.job][i]]_vars
  /\ [][CancelJobRan => CancelledJobRow(usr.job)]_vars

\* C24: as above, with the frame taken per status column: an item whose
\* status was Success or Failed keeps status, error and finishedAt, and an item
\* whose publishStatus was neither Queued nor Running keeps publishStatus,
\* publishError and publishedAt; a publishStatus that was Queued or Running
\* becomes Failed with the cancel reason.
CancelFrameAndEffect ==
  /\ [][CancelItemsRan =>
          /\ InFlightItemsFailed(usr.job)
          /\ \A i \in ItemIds(usr.job) :
               LET r == item[usr.job][i]
                   s == item'[usr.job][i]
               IN /\ r.status \in {"success", "failed"}
                       => s.status = r.status /\ s.error = r.error
                          /\ s.finishedAt = r.finishedAt
                  /\ IF r.publishStatus \in {"queued", "running"}
                     THEN s.publishStatus = "failed" /\ s.publishError = "cancelled"
                     ELSE /\ s.publishStatus = r.publishStatus
                          /\ s.publishError = r.publishError
                          /\ s.publishedAt = r.publishedAt]_vars
  /\ [][CancelJobRan => CancelledJobRow(usr.job)]_vars

\* A run is cancelled after one item failed in the Generator and before the
\* other was processed: the first keeps its own error, the second carries the
\* cancel reason, and the job row counts both.
CancelledBetweenItems ==
  /\ usr.pc = "idle" /\ job["J1"].status = "cancelled"
  /\ job["J1"].failedCount = 2
  /\ item["J1"][1].status = "failed" /\ item["J1"][1].error = "gen"
  /\ item["J1"][2].status = "failed" /\ item["J1"][2].error = "cancelled"

\* ------------------------------------------------------- broker adapter
\* Strings are sequences of characters; a word that is never taken apart
\* ("generate", "publish") stands as one element.  Job ids are the primary keys
\* of SeoJob rows: letters, possibly joined by dashes.
KindStrings == {<<"generate">>, <<"publish">>}
BrokerJobIds == {<<"a">>, <<"a", "-", "b">>}

\* safeBullId: String(input).trim().replace(/[:]/g, "-")
safeBullId(s) == [n \in 1..Len(s) |-> IF s[n] = ":" THEN "-" ELSE s[n]]

\* const customId = `${safeKind}-${safeJobId}`
customId(k, j) == safeBullId(k) \o <<"-">> \o safeBullId(j)

\* attempts: 3 in the options of queue.add
BullAttempts == 3

BrokerFrame == <<job, item, shopLock, queue, wk, rec, usr, used, usageVer, txn,
                 reservedFor, userOps>>

\* BullMQ Queue.add with opts.jobId: a job whose id is already stored is left
\* as it is and nothing is added.
QueueAdd(jobs, id, data) ==
  IF \E m \in jobs : m.id = id THEN jobs
  ELSE jobs \cup {[id |-> id, data |-> data, state |-> "waiting", attemptsMade |-> 0]}

\* An enqueue that leaves the id to BullMQ, which numbers the jobs it stores
EnqueueCallAutoId(j, k) ==
  /\ bullJobs' = bullJobs \cup
       {[id |-> <<Cardinality(bullJobs) + 1>>, data |-> [jobId |-> j, kind |-> k],
         state |-> "waiting", attemptsMade |-> 0]}
  /\ call' = [pc |-> "enqueueSeoJob", jobId |-> j, kind |-> k]
  /\ UNCHANGED BrokerFrame

\* enqueueSeoJob(jobId, kind): queue.add(JOB_NAME, { jobId, kind }, { jobId: customId, ... })
EnqueueCall(j, k) ==
  /\ bullJobs' = QueueAdd(bullJobs, customId(k, j), [jobId |-> j, kind |-> k])
  /\ call' = [pc |-> "enqueueSeoJob", jobId |-> j, kind |-> k]
  /\ UNCHANGED BrokerFrame

\* removeSeoQueueJob(jobId, kind): queue.remove(customId); BullMQ does not
\* remove a job that a worker holds.
RemoveCall(j, k) ==
  /\ bullJobs' = {m \in bullJobs : ~(m.id = customId(k, j) /\ m.state # "active")}
  /\ call' = [pc |-> "removeSeoQueueJob", jobId |-> j, kind |-> k]
  /\ UNCHANGED BrokerFrame

\* The BullMQ worker takes a waiting job.
BullTake(m) ==
  /\ m \in bullJobs /\ m.state = "waiting"
  /\ bullJobs' = (bullJobs \ {m}) \cup {[m EXCEPT !.state = "active"]}
  /\ call' = NoCall
  /\ UNCHANGED BrokerFrame

\* The processor returns: removeOnComplete: true deletes the job.
BullComplete(m) ==
  /\ m \in bullJobs /\ m.state = "active"
  /\ bullJobs' = bullJobs \ {m}
  /\ call' = NoCall
  /\ UNCHANGED BrokerFrame

\* The processor throws: the job is retried (backoff) while it has attempts
\* left; after the last one removeOnFail: true deletes it.
BullFail(m) ==
  /\ m \in bullJobs /\ m.state = "active"
  /\ bullJobs' = IF m.attemptsMade + 1 < BullAttempts
                 THEN (bullJobs \ {m}) \cup
                        {[m EXCEPT !.state = "waiting", !.attemptsMade = @ + 1]}
                 ELSE bullJobs \ {m}
  /\ call' = NoCall
  /\ UNCHANGED BrokerFrame

NextBroker ==
  \/ (\E j \in BrokerJobIds, k \in KindStrings : EnqueueCall(j, k))
  \/ (\E j \in BrokerJobIds, k \in KindStrings : RemoveCall(j, k))
  \/ (\E m \in bullJobs : BullTake(m))
  \/ (\E m \in bullJobs : BullComplete(m))
  \/ (\E m \in bullJobs : BullFail(m))

SpecBroker == Init /\ [][NextBroker]_vars

\* The stored jobs that carry the pair (jobId, kind) as their data.
MessagesFor(j, k) == {m \in bullJobs : m.data = [jobId |-> j, kind |-> k]}

\* C25: the broker never holds two messages for one (jobId, kind); the id of
\* every message is customId of its pair; and when enqueueSeoJob has returned
\* there is exactly one message for its pair, waiting or being processed:
\* the call is absorbed while an earlier message is pending, and it adds a
\* message once the earlier one has completed or failed for good.
OneMessagePerPair ==
  /\ \A j \in BrokerJobIds, k \in KindStrings : Cardinality(MessagesFor(j, k)) <= 1
  /\ \A m \in bullJobs : m.id = customId(m.data.kind, m.data.jobId)
  /\ call.pc = "enqueueSeoJob" => Cardinality(MessagesFor(call.jobId, call.kind)) = 1

\* enqueueSeoJob has returned for a pair whose earlier message a worker already
\* holds on its last attempt.
EnqueuedWhileActive ==
  /\ call.pc = "enqueueSeoJob"
  /\ \E m \in MessagesFor(call.jobId, call.kind) :
       m.state = "active" /\ m.attemptsMade = BullAttempts - 1

\* ------------------------------------------------------- nothing to process
\* A job is created with any number of items, none included, by the entry
\* point that leaves the reservation to the worker, for a shop whose counter is
\* at or near the limit; it is generated and published, and between two
\* deliveries the merchant may ask for the publish phase, also when nothing is
\* left to publish.
BetweenRuns == usr.pc = "idle" /\ \A w \in Workers : wk[w].pc = "idle"

RequestBetweenRuns(j) ==
  \/ BetweenRuns /\ StartPublishAllItems(j)
  \/ PublishJob
  \/ BetweenRuns /\ RetryJobPublish(j)

NextEmpty ==
  \/ (\E n \in 0..NumItems : CreateUnreserved("J1", n))
  \/ (usr.pc = "idle" /\ \E k \in Kinds : Deliver("W1", k, "J1"))
  \/ DispatchStep("W1")
  \/ LimitStep("W1")
  \/ MarkReserved("W1")
  \/ HeartbeatStep("W1")
  \/ GenerateStep("W1")
  \/ PublishStep("W1")
  \/ RequestBetweenRuns("J1")

SpecEmpty == InitNearLimit /\ [][NextEmpty]_vars /\ WF_vars(WorkerRuns("W1") \/ MarkReserved("W1"))

\* The job exists and has no item rows.
ZeroTotal(j) == job[j].exists /\ ItemIds(j) = {}

\* processPublish's findMany would return no row.
NothingToPublish(j) ==
  \A i \in ItemIds(j) : item[j][i].publishStatus \notin {"queued", "failed"}

\* The statements of the two item loops, from the heartbeat at the top of an
\* iteration to the counter increment at its end.
LoopBodyPcs ==
  {"genTouch", "genRefGet", "genRefExp", "genRun", "genCall", "genCountOk", "genCountFail",
   "pubTouch", "pubRefGet", "pubRefExp", "pubRun", "pubCall", "pubCountOk", "pubCountFail"}

Completed(j) == job[j].status = "success" /\ job[j].phase \in {"generated", "published"}

\* C26: a job without items never enters an item loop (so neither the
\* Generator nor the StoreAPI is called for it), no step changes the usage
\* counter while the job has no items, and once delivered it reaches status
\* Success in phase Generated or Published.  A publish phase whose findMany
\* returns nothing goes from there to its final check without entering the
\* loop, and the job reaches Published / Success.
EmptyJobCompletesAtOnce ==
  /\ [](\A w \in Workers : ZeroTotal("J1") /\ wk[w].job = "J1" => wk[w].pc \notin LoopBodyPcs)
  /\ [][ZeroTotal("J1")' => used' = used]_vars
  /\ (ZeroTotal("J1") /\ wk["W1"].pc = "loaded") ~> Completed("J1")
  /\ [][wk["W1"].pc = "pubFind" /\ NothingToPublish("J1") /\ wk'["W1"] # wk["W1"]
          => wk'["W1"].pc = "pubFinalCheck"]_vars
  /\ (wk["W1"].pc = "pubFind" /\ NothingToPublish("J1"))
        ~> (job["J1"].status = "success" /\ job["J1"].phase = "published")

\* A job without items has been generated for a shop whose counter stands at
\* the limit, and it was the worker that made the (empty) reservation.
ZeroTotalJobGenerated ==
  /\ ZeroTotal("J1") /\ used = FreeLimit
  /\ job["J1"].usageReserved
  /\ job["J1"].status = "success" /\ job["J1"].phase = "generated"

\* ------------------------------------------------------- draft length
MaxConfigured == 71  \* largest titleMaxChars / descriptionMaxChars / altTextMaxChars tried
MaxFieldLen == 72    \* longest field the Generator returns
CallFrame == <<job, item, shopLock, queue, wk, rec, usr, used, usageVer, txn,
               reservedFor, userOps, bullJobs>>

\* A string of n characters.
Text(n) == [i \in 1..n |-> "x"]

\* String.prototype.slice(0, m) for m >= 0
slice(s, m) == SubSeq(s, 1, IF m < Len(s) THEN m ELSE Len(s))

\* Number.parseInt(String(v || ""), 10) || d : an unset, empty or zero
\* setting takes the default
ParsedOr(v, d) == IF v = 0 THEN d ELSE v

AtLeast(floor, v) == IF v < floor THEN floor ELSE v

\* generateSeoForProduct: titleMaxChars, descriptionMaxChars;
\* generateAltTextForImage: maxChars
titleMaxChars(settings) ==
  AtLeast(20, ParsedOr(settings.configured, IF settings.maxLength = "short" THEN 55 ELSE 70))
descriptionMaxChars(settings) ==
  AtLeast(60, ParsedOr(settings.configured, IF settings.maxLength = "short" THEN 140 ELSE 160))
altMaxChars(settings) == AtLeast(40, ParsedOr(settings.configured, 125))

MaxCharsOf(field, settings) ==
  CASE field = "seoTitle" -> titleMaxChars(settings)
    [] field = "seoDescription" -> descriptionMaxChars(settings)
    [] field = "altText" -> altMaxChars(settings)

\* The Generator has answered one item's request: the field it returned, the
\* shop's settings, and whether the job asks for this field (metaTitle,
\* metaDescription; an alt-text job always does).
TruncateCalls ==
  [pc : {"generated"},
   field : {"seoTitle", "seoDescription", "altText"},
   settings : [configured : 0..MaxConfigured, maxLength : {"short", "standard", "long"}],
   out : {Text(n) : n \in 0..MaxFieldLen},
   wanted : BOOLEAN,
   ret : {"none"},
   draft : {"none"}]

InitTruncate ==
  /\ InitTables /\ used = 0
  /\ call \in {c \in TruncateCalls : c.field = "altText" => c.wanted}

\* The return statement of generateSeoForProduct / generateAltTextForImage
ReturnSliced ==
  /\ call.pc = "generated"
  /\ call' = [call EXCEPT !.pc = "returned",
                          !.ret = slice(call.out, MaxCharsOf(call.field, call.settings))]
  /\ UNCHANGED CallFrame

\* processGenerate: seoJobItem.update(status success, seoTitle: ... || null, ...);
\* a field the job does not ask for keeps the stored value.
PersistDraft ==
  /\ call.pc = "returned"
  /\ call' = [call EXCEPT !.pc = "persisted",
                          !.draft = IF call.wanted /\ call.ret # <<>> THEN call.ret ELSE "null"]
  /\ UNCHANGED CallFrame

NextTruncate == ReturnSliced \/ PersistDraft

SpecTruncate == InitTruncate /\ [][NextTruncate]_vars

\* C27: when the Generator's field was longer than the configured maximum
\* (any configured value from 1 on) and the job asks for the field, the draft
\* stored on the item has exactly the configured length.
DraftHasConfiguredLength ==
  (/\ call.pc = "persisted"
   /\ call.wanted
   /\ call.settings.configured >= 1
   /\ Len(call.out) > call.settings.configured)
     => Len(call.draft) = call.settings.configured

\* ------------------------------------------------------- language rewrite
MaxTokenScore == 3   \* largest englishTokenScore / turkishTokenScore drawn

\* Language codes as the job row may carry them.
LanguageInputs ==
  {<<>>, <<"t", "r">>, <<"e", "n">>, <<"E", "N", "-", "u", "s">>, <<"d", "e">>, <<"1", "e">>}

toLowerCase(c) == CASE c = "E" -> "e" [] c = "N" -> "n" [] OTHER -> c
IsLowerLetter(c) == c \in {"t", "r", "e", "n", "d", "u", "s"}

\* sanitizeLanguage: raw.match(/^[a-z]{2}/) on the lower-cased code, else "tr"
sanitizeLanguage(input) ==
  LET raw == [i \in 1..Len(input) |-> toLowerCase(input[i])]
  IN IF Len(raw) >= 2 /\ IsLowerLetter(raw[1]) /\ IsLowerLetter(raw[2])
     THEN SubSeq(raw, 1, 2)
     ELSE <<"t", "r">>

\* What isLanguageMismatch reads in the joined fields of an answer: whether
\* they are all empty, hasTurkishChars, englishTokenScore, turkishTokenScore.
Blank == [blank |-> TRUE, trChars |-> FALSE, enScore |-> 0, trScore |-> 0]
Answers ==
  {Blank} \cup [blank : {FALSE}, trChars : BOOLEAN,
                enScore : 0..MaxTokenScore, trScore : 0..MaxTokenScore]

isLanguageMismatch(lang, t) ==
  LET l == sanitizeLanguage(lang) IN
  IF t.blank THEN FALSE
  ELSE IF l = <<"t", "r">> THEN ~t.trChars /\ t.enScore >= 3 /\ t.trScore = 0
  ELSE IF l = <<"e", "n">> THEN t.trChars
  ELSE FALSE

\* generateSeoForProduct / generateAltTextForImage is called for one item.
InitRewrite ==
  /\ InitTables /\ used = 0
  /\ call \in [pc : {"first"}, lang : LanguageInputs, first : {Blank}, rewritten : {Blank},
               text : {Blank}, calls : {0}, rewrites : {0}]

\* const out = await openAiChatJson(...): it returns an answer or throws.
FirstAnswer(thrown, t) ==
  /\ call.pc = "first"
  /\ call' = IF thrown THEN [call EXCEPT !.pc = "thrown", !.calls = @ + 1]
             ELSE [call EXCEPT !.pc = "check", !.calls = @ + 1, !.first = t, !.text = t]
  /\ UNCHANGED CallFrame

\* if (isLanguageMismatch(lang, seoTitle, seoDescription))
CheckLanguage ==
  /\ call.pc = "check"
  /\ call' = [call EXCEPT !.pc = IF isLanguageMismatch(call.lang, call.text)
                                 THEN "rewrite" ELSE "return"]
  /\ UNCHANGED CallFrame

\* A rewrite whose answer is checked again
RewriteAnswerRechecked(thrown, t) ==
  /\ call.pc = "rewrite"
  /\ call' = IF thrown
             THEN [call EXCEPT !.pc = "thrown", !.calls = @ + 1, !.rewrites = @ + 1]
             ELSE [call EXCEPT !.pc = "check", !.calls = @ + 1, !.rewrites = @ + 1,
                               !.rewritten = t,
                               !.text = IF t.blank THEN @ ELSE t]
  /\ UNCHANGED CallFrame

\* rewritten = await rewriteJsonToLanguage(...); seoTitle = String(rewritten?.seoTitle || seoTitle)
RewriteAnswer(thrown, t) ==
  /\ call.pc = "rewrite"
  /\ call' = IF thrown
             THEN [call EXCEPT !.pc = "thrown", !.calls = @ + 1, !.rewrites = @ + 1]
             ELSE [call EXCEPT !.pc = "return", !.calls = @ + 1, !.rewrites = @ + 1,
                               !.rewritten = t,
                               !.text = IF t.blank THEN @ ELSE t]
  /\ UNCHANGED CallFrame

\* return { seoTitle: ..., seoDescription: ... }
ReturnDraft ==
  /\ call.pc = "return"
  /\ call' = [call EXCEPT !.pc = "returned"]
  /\ UNCHANGED CallFrame

NextRewrite ==
  \/ (\E thrown \in BOOLEAN, t \in Answers : FirstAnswer(thrown, t))
  \/ CheckLanguage
  \/ (\E thrown \in BOOLEAN, t \in Answers : RewriteAnswer(thrown, t))
  \/ ReturnDraft

\* The helper is awaited by processGenerate: it keeps running until it
\* returns or throws.
SpecRewrite == InitRewrite /\ [][NextRewrite]_vars /\ WF_vars(NextRewrite)

GenerationEnded == call.pc \in {"returned", "thrown"}

\* C28: for one item the rewrite pass runs once when the first answer is a
\* language mismatch and not at all otherwise; its answer is what the helper
\* returns, whether or not it is a mismatch again; the Generator is called at
\* most twice, and the generation ends (returns or throws).
RewriteAtMostOnce ==
  /\ [](call.calls <= 2 /\ call.rewrites <= 1)
  /\ [](call.rewrites = 1 => isLanguageMismatch(call.lang, call.first))
  /\ [](call.pc = "returned" =>
          /\ call.rewrites = (IF isLanguageMismatch(call.lang, call.first) THEN 1 ELSE 0)
          /\ call.calls = call.rewrites + 1
          /\ call.rewrites = 1 /\ ~call.rewritten.blank => call.text = call.rewritten)
  /\ <>GenerationEnded

\* The rewrite answered in the wrong language again and its answer was
\* returned.
SecondMismatchAccepted ==
  /\ call.pc = "returned" /\ call.rewrites = 1
  /\ isLanguageMismatch(call.lang, call.text)

\* ------------------------------------------------------- retry loops
MaxAttemptsDrawn == 3   \* OPENAI_MAX_ATTEMPTS / SHOPIFY_MAX_ATTEMPTS drawn from 0..MaxAttemptsDrawn (default 3)
BaseBackoffMs == 1000   \* OPENAI_BACKOFF_BASE_MS / SHOPIFY_BACKOFF_BASE_MS default

Loops == {"openAiChatJson", "shopifyGraphqlJsonWithRetry"}
JobTypes == {"product", "image", "article"}
\* Retry-After header of a failed response in seconds; 0: no header.
RetryAfterSecs == {0, 1, 1200}
\* Math.floor(Math.random() * 250): the two ends of its range
Jitters == {0, 249}

NoFailure == [transient |-> FALSE, retryAfter |-> 0]

\* Math.pow(2, n) for a natural n
RECURSIVE Pow2(_)
Pow2(n) == IF n = 0 THEN 1 ELSE 2 * Pow2(n - 1)

\* A backoff whose exponent is attempt - 1 with no cap
computeBackoffMsUncapped(attempt, baseMs, jitter) ==
  baseMs * Pow2(attempt - 1) + attempt * 500 + jitter

\* computeBackoffMs(attempt, baseMs)
computeBackoffMs(attempt, baseMs, jitter) ==
  LET exp == IF attempt - 1 < 3 THEN attempt - 1 ELSE 3
  IN baseMs * Pow2(exp) + attempt * 500 + jitter

\* The wait before the next attempt.  openAiChatJson:
\*   e.retryAfter ? Math.max(e.retryAfter * 1000, 1000) : computeBackoffMs(...)
\* shopifyGraphqlJsonWithRetry:
\*   Math.max(computeBackoffMs(...), Number(e.retryAfter || 0) * 1000)
WaitMs(loop, attempt, retryAfter, jitter) ==
  LET backoff == computeBackoffMs(attempt, BaseBackoffMs, jitter)
      hinted == retryAfter * 1000
  IN IF loop = "openAiChatJson"
     THEN IF retryAfter # 0 THEN (IF hinted > 1000 THEN hinted ELSE 1000) ELSE backoff
     ELSE IF backoff > hinted THEN backoff ELSE hinted

\* One call of a retry loop with the hooks processGenerate passes for the job
\* type (the StoreAPI loop is called with hooks of the same shape as the
\* product ones); the item's and the job's retry counters start at 0.
InitRetry ==
  /\ InitTables /\ used = 0
  /\ call \in {c \in [pc : {"attempt"}, loop : Loops, jobType : JobTypes,
                      maxAttempts : 0..MaxAttemptsDrawn, attempt : {1},
                      err : {NoFailure}, onAttempt : {<<>>}, onRetry : {0},
                      sleeps : {0}, lastWait : {0}, throttleWait : {0},
                      genAttempts : {0}, genRetryWaitMs : {0},
                      totalAttempts : {0}, totalRetryWaitMs : {0}] :
                 c.loop = "shopifyGraphqlJsonWithRetry" => c.jobType = "product"}

\* onAttempt(attempt) of processGenerate: genAttempts and totalAttempts + 1
WithAttemptHook(c) ==
  [c EXCEPT !.onAttempt = Append(@, c.attempt),
            !.genAttempts = @ + 1, !.totalAttempts = @ + 1]

\* onRetry of processGenerate.  Product and image jobs take
\* ({ attemptNumber, waitMs, reason }) and add Math.floor(waitMs) to
\* genRetryWaitMs and totalRetryWaitMs.  The article job's hook is declared
\* (waitMs, err): it receives the object as waitMs, Number(object) is NaN, the
\* increment is NaN and the update is rejected; the loop swallows the throw.
WithRetryHook(c, waitMs) ==
  IF c.jobType = "article"
  THEN [c EXCEPT !.onRetry = @ + 1]
  ELSE [c EXCEPT !.onRetry = @ + 1,
                 !.genRetryWaitMs = @ + waitMs, !.totalRetryWaitMs = @ + waitMs]

\* One iteration up to the outcome of the request: onAttempt, then the
\* request returns JSON (for the StoreAPI possibly with a throttle wait of up
\* to 5000 ms before the return) or fails.
TryOnce(outcome, retryAfter, throttle) ==
  /\ call.pc = "attempt" /\ call.attempt <= call.maxAttempts
  /\ throttle # 0 => call.loop = "shopifyGraphqlJsonWithRetry" /\ outcome = "ok"
  /\ outcome = "ok" => retryAfter = 0
  /\ call' = IF outcome = "ok"
             THEN [WithAttemptHook(call) EXCEPT !.pc = "returned", !.throttleWait = throttle]
             ELSE [WithAttemptHook(call) EXCEPT !.pc = "catch",
                     !.err = [transient |-> outcome = "transient", retryAfter |-> retryAfter]]
  /\ UNCHANGED CallFrame

\* A catch block that retries a transient failure whatever the attempt number
CatchFailureNoLimit(jitter) ==
  /\ call.pc = "catch"
  /\ call' = IF ~call.err.transient
             THEN [call EXCEPT !.pc = "thrown"]
             ELSE LET waitMs == WaitMs(call.loop, call.attempt, call.err.retryAfter, jitter)
                  IN [WithRetryHook(call, waitMs) EXCEPT
                        !.pc = "attempt", !.attempt = @ + 1,
                        !.sleeps = @ + 1, !.lastWait = waitMs]
  /\ UNCHANGED CallFrame

\* The catch block: a permanent failure or the last attempt throws; otherwise
\* onRetry, sleep(waitMs) and the next iteration.
CatchFailure(jitter) ==
  /\ call.pc = "catch"
  /\ call' = IF ~call.err.transient \/ call.attempt >= call.maxAttempts
             THEN [call EXCEPT !.pc = "thrown"]
             ELSE LET waitMs == WaitMs(call.loop, call.attempt, call.err.retryAfter, jitter)
                  IN [WithRetryHook(call, waitMs) EXCEPT
                        !.pc = "attempt", !.attempt = @ + 1,
                        !.sleeps = @ + 1, !.lastWait = waitMs]
  /\ UNCHANGED CallFrame

\* After the loop: throw lastErr || new Error(...), reached only when the
\* configured number of attempts is below 1.
LoopExhausted ==
  /\ call.pc = "attempt" /\ call.attempt > call.maxAttempts
  /\ call' = [call EXCEPT !.pc = "thrown"]
  /\ UNCHANGED CallFrame

NextRetry ==
  \/ (\E outcome \in {"ok", "transient", "permanent"}, retryAfter \in RetryAfterSecs,
         throttle \in {0, 5000} : TryOnce(outcome, retryAfter, throttle))
  \/ (\E jitter \in Jitters : CatchFailure(jitter))
  \/ LoopExhausted

\* The caller awaits the loop, and every request returns or fails within its
\* timeout.
SpecRetry == InitRetry /\ [][NextRetry]_vars /\ WF_vars(NextRetry)

\* C29: for each job type, when the Generator failed transiently twice and
\* answered at the third attempt, the item's genAttempts is 3, its
\* genRetryWaitMs is at least 4000, and the job's totalAttempts and
\* totalRetryWaitMs have grown by the same amounts.
TwoTransientFailuresCounted ==
  (/\ call.loop = "openAiChatJson"
   /\ call.pc = "returned"
   /\ Len(call.onAttempt) = 3)
     => /\ call.genAttempts = 3 /\ call.genRetryWaitMs >= 4000
        /\ call.totalAttempts = 3 /\ call.totalRetryWaitMs = call.genRetryWaitMs

LoopEnded == call.pc \in {"returned", "thrown"}

\* C30: both loops end; they make at most the configured number of attempts
\* and call onAttempt with 1, 2, ..., k; a permanent failure is thrown from the
\* catch block at once, with no onRetry and no sleep (so a first failure that
\* is permanent ends the call after one attempt); a transient failure before
\* the last attempt is followed by onRetry, a positive wait and the next
\* attempt; a transient failure at the last attempt is thrown; and a call that
\* made k >= 1 attempts has called onRetry and slept k - 1 times.
RetryLoopsBounded ==
  /\ <>LoopEnded
  /\ [](/\ Len(call.onAttempt) <= call.maxAttempts
        /\ call.onAttempt = [i \in 1..Len(call.onAttempt) |-> i])
  /\ [](LoopEnded /\ Len(call.onAttempt) >= 1 =>
          call.onRetry = Len(call.onAttempt) - 1 /\ call.sleeps = call.onRetry)
  /\ [](call.pc = "thrown" /\ ~call.err.transient /\ call.attempt = 1 /\ call.maxAttempts >= 1
          => Len(call.onAttempt) = 1 /\ call.sleeps = 0)
  /\ [][call.pc = "catch" /\ ~call.err.transient
          => call'.pc = "thrown" /\ call'.sleeps = call.sleeps /\ call'.onRetry = call.onRetry]_vars
  /\ [][call.pc = "catch" /\ call.err.transient /\ call.attempt < call.maxAttempts
          => /\ call'.pc = "attempt" /\ call'.attempt = call.attempt + 1
             /\ call'.onRetry = call.onRetry + 1 /\ call'.sleeps = call.sleeps + 1
             /\ call'.lastWait > 0]_vars
  /\ [][call.pc = "catch" /\ call.err.transient /\ call.attempt >= call.maxAttempts
          => call'.pc = "thrown" /\ call'.sleeps = call.sleeps]_vars

\* Three transient failures in a row with the default of three attempts: the
\* loop has thrown after two waits.
ThreeTransientFailuresThrown ==
  /\ call.pc = "thrown" /\ call.err.transient
  /\ call.maxAttempts = 3 /\ call.onAttempt = <<1, 2, 3>>
  /\ call.onRetry = 2 /\ call.sleeps = 2

\* ------------------------------------------------------- computeBackoffMs
MaxAttemptArg == 6      \* computeBackoffMs is applied to attempts 1..MaxAttemptArg
JitterSpan == 250       \* Math.floor(Math.random() * 250) is one of 0..249
\* values of the base (OPENAI_BACKOFF_BASE_MS / SHOPIFY_BACKOFF_BASE_MS)
BackoffBases == {0, 1, 500, 1000, 3000}

InitBackoff ==
  /\ InitTables /\ used = 0
  /\ call \in [pc : {"backoffCalled"}, attempt : 1..MaxAttemptArg,
               baseMs : BackoffBases, ret : {0}]

\* One evaluation of computeBackoffMs(attempt, baseMs); the value of
\* Math.floor(Math.random() * 250) is any integer of 0..249.
BackoffReturn(jitter) ==
  /\ call.pc = "backoffCalled"
  /\ call' = [call EXCEPT !.pc = "backoffReturned",
                          !.ret = computeBackoffMs(call.attempt, call.baseMs, jitter)]
  /\ UNCHANGED CallFrame

NextBackoff == \E jitter \in 0..(JitterSpan - 1) : BackoffReturn(jitter)

SpecBackoff == InitBackoff /\ [][NextBackoff]_vars

\* C31: for every attempt >= 1 and base >= 0 the value v returned by
\* computeBackoffMs(attempt, base) satisfies
\* base * 2^min(3, attempt-1) + attempt*500 <= v < the same + 250, and from
\* attempt 4 on the exponential term is base * 8.
BackoffWithinBounds ==
  call.pc = "backoffReturned" =>
    LET e == IF call.attempt - 1 < 3 THEN call.attempt - 1 ELSE 3
        low == call.baseMs * (2 ^ e) + call.attempt * 500
    IN /\ low <= call.ret /\ call.ret < low + 250
       /\ call.attempt >= 4 =>
            /\ call.baseMs * 8 + call.attempt * 500 <= call.ret
            /\ call.ret < call.baseMs * 8 + call.attempt * 500 + 250

\* The sixth attempt with base 1000 and the largest jitter: 8000 + 3000 + 249.
BackoffCappedAtSixthAttempt ==
  /\ call.pc = "backoffReturned" /\ call.attempt = 6 /\ call.baseMs = 1000
  /\ call.ret = 11249

\* ------------------------------------------------------- computeShopifyThrottleWaitMs
MaxAvailable == 102     \* currentlyAvailable is drawn from -2..MaxAvailable
MinAvailable == 100     \* minAvailable = 100
MaxWaitMs == 5000       \* maxWaitMs = 5000

\* Number(x) of a field of throttleStatus: a finite number, or NaN when the
\* field (or extensions.cost.throttleStatus itself) is missing.
NaN == [finite |-> FALSE, value |-> 0]
Num(n) == [finite |-> TRUE, value |-> n]
AvailableReadings == {NaN} \cup {Num(n) : n \in (0 - 2)..MaxAvailable}
RestoreRates == {NaN} \cup {Num(n) : n \in {0 - 1, 0, 1, 3, 7, 50, 100, 1000}}

\* Math.ceil(a / b) for a >= 0 and b > 0
CeilDiv(a, b) == (a + b - 1) \div b

\* A wait that is not clamped to maxWaitMs
computeShopifyThrottleWaitMsUnclamped(currentlyAvailable, restoreRate) ==
  IF ~currentlyAvailable.finite \/ ~restoreRate.finite \/ restoreRate.value <= 0
  THEN 0
  ELSE IF currentlyAvailable.value >= MinAvailable
  THEN 0
  ELSE CeilDiv((MinAvailable - currentlyAvailable.value) * 1000, restoreRate.value)

\* computeShopifyThrottleWaitMs(json) with the default minAvailable and
\* maxWaitMs.  Math.ceil((deficit / restoreRate) * 1000) is computed here as the
\* ceiling of the exact quotient.
computeShopifyThrottleWaitMs(currentlyAvailable, restoreRate) ==
  IF ~currentlyAvailable.finite \/ ~restoreRate.finite \/ restoreRate.value <= 0
  THEN 0
  ELSE IF currentlyAvailable.value >= MinAvailable
  THEN 0
  ELSE LET deficit == MinAvailable - currentlyAvailable.value
           ms == CeilDiv(deficit * 1000, restoreRate.value)
       IN IF ms <= 0 THEN 0 ELSE IF ms < MaxWaitMs THEN ms ELSE MaxWaitMs

InitThrottle ==
  /\ InitTables /\ used = 0
  /\ call \in [pc : {"throttleCalled"}, currentlyAvailable : AvailableReadings,
               restoreRate : RestoreRates, ret : {0}]

ThrottleReturn ==
  /\ call.pc = "throttleCalled"
  /\ call' = [call EXCEPT !.pc = "throttleReturned",
                !.ret = computeShopifyThrottleWaitMs(call.currentlyAvailable, call.restoreRate)]
  /\ UNCHANGED CallFrame

NextThrottle == ThrottleReturn

SpecThrottle == InitThrottle /\ [][NextThrottle]_vars

Statuses == {0, 200} \cup 400..599

\* A failure as the classifiers read it: the status and which of their
\* patterns the message matches.
\*   aborted   name === "AbortError", /aborted/i (Generator);
\*             "AbortError" or "timeout" in the message (StoreAPI)
\*   network   /ECONNRESET|ENOTFOUND|EAI_AGAIN|ETIMEDOUT|network/i (Generator),
\*             /ECONNRESET|ENOTFOUND|EAI_AGAIN|fetch failed|network/i (StoreAPI)
\*   tooLong   /context length|max.*tokens|too long/i (Generator)
\*   throttled /thrott|rate limit|too many requests|429/ on the message joined
\*             with the GraphQL error messages (StoreAPI)
\*   graphQLErrors  json.errors is a non-empty array (StoreAPI)
Failures ==
  {f \in [path : {"Generator", "StoreAPI"}, status : Statuses, aborted : BOOLEAN,
          network : BOOLEAN, tooLong : BOOLEAN, throttled : BOOLEAN,
          graphQLErrors : BOOLEAN] :
     /\ f.path = "Generator" => ~f.throttled /\ ~f.graphQLErrors /\ f.status # 200
     /\ f.path = "StoreAPI" => ~f.tooLong
     /\ f.status = 200 => f.graphQLErrors}

\* classifyOpenAiFailure({ status, message, name }).isTransient
classifyOpenAiFailure(f) ==
  LET transientStatus == {408, 409, 429, 500, 502, 503, 504}
      isTransient == (f.status # 0 /\ f.status \in transientStatus) \/ f.aborted \/ f.network
  IN CASE f.status = 401 \/ f.status = 403 -> FALSE
       [] f.status = 429 -> TRUE
       [] f.status = 400 /\ f.tooLong -> FALSE
       [] f.status # 0 /\ f.status >= 400 /\ f.status < 500 -> FALSE
       [] f.status # 0 /\ f.status >= 500 -> TRUE
       [] f.aborted -> TRUE
       [] f.network -> TRUE
       [] OTHER -> isTransient

\* classifyShopifyFailure({ status, message, graphQLErrors }).isTransient
classifyShopifyFailure(f) ==
  CASE f.status = 401 \/ f.status = 403 -> FALSE
    [] f.status = 429 -> TRUE
    [] f.status # 0 /\ f.status >= 500 -> TRUE
    [] f.throttled -> TRUE
    [] f.status # 0 /\ f.status >= 400 /\ f.status < 500 -> FALSE
    [] f.aborted -> TRUE
    [] f.network -> TRUE
    [] OTHER -> TRUE

InitClassify ==
  /\ InitTables /\ used = 0
  /\ call \in [pc : {"failed"}, failure : Failures, isTransient : {FALSE}]

\* The retry loop classifies the failure of an attempt.
Classify ==
  /\ call.pc = "failed"
  /\ call' = [call EXCEPT !.pc = "classified",
                !.isTransient = IF call.failure.path = "Generator"
                                THEN classifyOpenAiFailure(call.failure)
                                ELSE classifyShopifyFailure(call.failure)]
  /\ UNCHANGED CallFrame

NextClassify == Classify

SpecClassify == InitClassify /\ [][NextClassify]_vars

\* C33: both classifiers give: 401 and 403 permanent; 429 transient; every
\* other status of 400..499 permanent; every status of 500..599 transient; a
\* timeout, abort or network error without status transient; on the StoreAPI
\* path a GraphQL error matching throttling on a 200 response transient, and a
\* GraphQL error on a 200 response that does not match throttling permanent
\* (not retried).
ClassifiedAsSpecified ==
  call.pc = "classified" =>
    LET f == call.failure
        t == call.isTransient
    IN /\ f.status \in {401, 403} => ~t
       /\ f.status = 429 => t
       /\ f.status \in (400..499) \ {401, 403, 429} => ~t
       /\ f.status \in 500..599 => t
       /\ f.status = 0 /\ (f.aborted \/ f.network) => t
       /\ f.path = "StoreAPI" /\ f.status = 200 /\ f.throttled => t
       /\ f.path = "StoreAPI" /\ f.status = 200 /\ ~f.throttled => ~t

\* ------------------------------------------------------- exits of a delivery
\* Positions inside handleJob's try block: an await there may reject (the
\* database, unauthenticated.admin, JSON.parse of the settings).
ThrowPcs == {"dispatch"} \cup GenPcs \cup PubPcs

\* An exception leaves the phase: control passes to handleJob's finally.
PhaseThrows(w) ==
  /\ wk[w].pc \in ThrowPcs
  /\ Goto(w, "finallyThrown")
  /\ UNCHANGED <<job, item, shopLock>> /\ UNCHANGED WorkerFrame

\* handleJob finally while the exception propagates
FinallyAfterThrow(w) ==
  /\ At(w, "finallyThrown")
  /\ job' = IF job[Cur(w)].lockOwner = w
            THEN [job EXCEPT ![Cur(w)].lockOwner = NoOwner, ![Cur(w)].lockExpiresAt = NullTs]
            ELSE job
  /\ Goto(w, "relShopThrown")
  /\ UNCHANGED <<item, shopLock>> /\ UNCHANGED WorkerFrame

MaxCounted == 2         \* a rejected message is retried while the job's counters sum to less

\* The outcomes counted on a job row so far
Counted(r) == r.okCount + r.failedCount + r.publishOkCount + r.publishFailedCount

\* processor finally while the exception propagates: releaseShopLock, then the
\* processor rejects and the broker retries the message (attempts left) or
\* drops it (removeOnFail).
releaseShopLockAfterThrow(w, retry) ==
  /\ At(w, "relShopThrown")
  /\ retry => Counted(job[Cur(w)]) < MaxCounted
  /\ shopLock' = IF shopLock.owner = w THEN NoLock ELSE shopLock
  /\ queue' = [queue EXCEPT ![MsgId(wk[w].kind, Cur(w))] = IF retry THEN "waiting" ELSE "none"]
  /\ wk' = [wk EXCEPT ![w] = IdleWk]
  /\ UNCHANGED <<job, item, rec, usr, used, usageVer, txn, reservedFor, userOps, bullJobs, call>>

ThrowStep(w) ==
  \/ PhaseThrows(w) \/ FinallyAfterThrow(w)
  \/ (\E retry \in BOOLEAN : releaseShopLockAfterThrow(w, retry))

\* One job with one item of a shop near its limit, created without a
\* reservation and enqueued; its row may carry the lease, live or lapsed, of
\* another worker process.
InitExit ==
  /\ \E l \in {r \in LeaseRows : r.owner # "W1"} :
       job = [j \in Jobs |->
                IF j = "J1"
                THEN [NewJob(1, FALSE) EXCEPT !.lockOwner = l.owner,
                                              !.lockExpiresAt = l.at,
                                              !.lastHeartbeatAt = l.at]
                ELSE NoJob]
  /\ item = [j \in Jobs |-> [i \in Items |->
                IF j = "J1" /\ i = 1 THEN NewItem ELSE NoItem]]
  /\ used \in (FreeLimit - 1)..FreeLimit
  /\ reservedFor = [j \in Jobs |-> 0]
  /\ shopLock = NoLock
  /\ queue = [m \in Kinds \X Jobs |-> IF m = MsgId("generate", "J1") THEN "waiting" ELSE "none"]
  /\ wk = [w \in Workers |-> IdleWk]
  /\ rec = IdleRec
  /\ usr = IdleUsr
  /\ usageVer = 0
  /\ txn = [c \in Callers |-> IdleTxn]
  /\ userOps = 0
  /\ bullJobs = {}
  /\ call = NoCall

\* One worker process takes the job's messages; the user publishes and
\* cancels; a phase may throw.
NextExit ==
  \/ (\E k \in Kinds : Deliver("W1", k, "J1"))
  \/ DispatchStep("W1") \/ LimitStep("W1") \/ MarkReserved("W1")
  \/ HeartbeatStep("W1") \/ GenerateStep("W1") \/ PublishStep("W1")
  \/ ThrowStep("W1")
  \/ Cancel("J1")
  \/ StartPublishAllItems("J1") \/ PublishJob

SpecExit == InitExit /\ [][NextExit]_vars

\* C34: whenever the processor of a delivery that acquired the tenant lock
\* returns or rejects (after normal completion, a refused lease, a cancelled
\* job, a denied reservation or an exception of the phase), the tenant lock
\* is not held by this worker and the job's lease is not owned by it.
ProcessorExitReleases ==
  [][\A w \in Workers :
       (wk[w].pc \notin {"idle", "loaded"} /\ wk'[w].pc = "idle")
          => /\ shopLock'.owner # w
             /\ job'[wk[w].job].lockOwner # w]_vars

\* The processor's finally block is about to run for a thrown exception while
\* the worker holds the tenant lock.
ExceptionExitHoldingLock ==
  \E w \in Workers : wk[w].pc = "relShopThrown" /\ shopLock.owner = w

\* ------------------------------------------------------- tenant lock ownership
\* Two generate jobs of one shop, one worker process each; time passes without
\* bound between two steps of a worker (a call to the Generator or to the
\* StoreAPI may take any time), so the Redis key may expire under its holder.
NextLockRace ==
  \/ (\E j \in Jobs : StartGenerate(j, 1))
  \/ Deliver("W1", "generate", "J1")
  \/ Deliver("W2", "generate", "J2")
  \/ (\E w \in Workers : DispatchStep(w) \/ HeartbeatStep(w) \/ GenerateStep(w))
  \/ Tick

SpecLockRace == Init /\ [][NextLockRace]_vars

\* C35: no step of refreshShopLock or releaseShopLock of a worker changes the
\* tenant lock (its remaining TTL or its existence) while the lock's value is
\* another owner.
ForeignLockUntouched ==
  [][\A w \in Workers :
       (/\ wk[w].pc \in {"genRefExp", "pubRefExp", "relShop"}
        /\ wk'[w].pc # wk[w].pc
        /\ shopLock.owner \notin {NoOwner, w})
          => shopLock' = shopLock]_vars

\* ------------------------------------------------------- SEO metafield writers
\* Strings as sequences of characters; " " is white space.
GeneratedValues == {<<>>, <<" ">>, <<" ", "g">>}
MetafieldValues == {<<>>, <<" ">>, <<"m">>}
NativeValues == {<<>>, <<"n">>}

\* String.prototype.trim
RECURSIVE trimStart(_)
trimStart(s) == IF s # <<>> /\ Head(s) = " " THEN trimStart(Tail(s)) ELSE s
RECURSIVE trimEnd(_)
trimEnd(s) ==
  IF s # <<>> /\ s[Len(s)] = " " THEN trimEnd(SubSeq(s, 1, Len(s) - 1)) ELSE s
trim(s) == trimEnd(trimStart(s))

Metafield(key, value) == [key |-> key, value |-> value]

\* updateProductSeo up to `if (!metafields.length) return`: the metafields
\* array it builds.  c carries the arguments and what the product query read.
ProductMetafields(c) ==
  LET titleVal == trim(c.seoTitle)
      descVal == trim(c.seoDescription)
      titleTagVal == trim(c.titleTag)
      descTagVal == trim(c.descriptionTag)
      seoTitleVal == trim(c.nativeTitle)
      seoDescVal == trim(c.nativeDescription)
      currentTitle == IF titleTagVal # <<>> THEN titleTagVal ELSE seoTitleVal
      currentDesc == IF descTagVal # <<>> THEN descTagVal ELSE seoDescVal
      willWriteTitle == c.metaTitle /\ titleVal # <<>>
      willWriteDesc == c.metaDescription /\ descVal # <<>>
  IN (IF willWriteTitle THEN <<Metafield("title_tag", titleVal)>> ELSE <<>>)
     \o (IF willWriteDesc THEN <<Metafield("description_tag", descVal)>> ELSE <<>>)
     \o (IF willWriteTitle /\ ~willWriteDesc /\ c.metaDescription
            /\ descTagVal = <<>> /\ currentDesc # <<>>
         THEN <<Metafield("description_tag", currentDesc)>> ELSE <<>>)
     \o (IF willWriteDesc /\ ~willWriteTitle /\ c.metaTitle
            /\ titleTagVal = <<>> /\ currentTitle # <<>>
         THEN <<Metafield("title_tag", currentTitle)>> ELSE <<>>)

\* updateArticleSeoMetafields: the metafields array built for an owner id.
\* liveTitle and liveDesc are the article's own title_tag and description_tag
\* metafields as fetchArticle read them.
ArticleMetafields(c) ==
  LET liveTitle == trim(c.titleTag)
      liveDesc == trim(c.descriptionTag)
      titleVal == trim(c.seoTitle)
      descVal == trim(c.seoDescription)
      willWriteTitle == c.metaTitle /\ titleVal # <<>>
      willWriteDesc == c.metaDescription /\ descVal # <<>>
  IN (IF willWriteTitle THEN <<Metafield("title_tag", titleVal)>> ELSE <<>>)
     \o (IF willWriteDesc THEN <<Metafield("description_tag", descVal)>> ELSE <<>>)
     \o (IF willWriteTitle /\ ~willWriteDesc /\ c.metaDescription /\ liveDesc # <<>>
         THEN <<Metafield("description_tag", liveDesc)>> ELSE <<>>)
     \o (IF willWriteDesc /\ ~willWriteTitle /\ c.metaTitle /\ liveTitle # <<>>
         THEN <<Metafield("title_tag", liveTitle)>> ELSE <<>>)

\* A call of one of the two writers by processPublish with the item's draft,
\* the job's metaTitle / metaDescription and the values the StoreAPI holds.
\* An article has no native seo field.
InitStage ==
  /\ InitTables /\ used = 0
  /\ call \in {c \in [pc : {"writerCalled"}, target : {"product", "article"},
                      metaTitle : BOOLEAN, metaDescription : BOOLEAN,
                      seoTitle : GeneratedValues, seoDescription : GeneratedValues,
                      titleTag : MetafieldValues, descriptionTag : MetafieldValues,
                      nativeTitle : NativeValues, nativeDescription : NativeValues,
                      metafields : {<<>>}, sent : {FALSE}] :
                 c.target = "article" => c.nativeTitle = <<>> /\ c.nativeDescription = <<>>}

\* The writer builds its metafields array and returns or sends metafieldsSet.
StageAndSend ==
  /\ call.pc = "writerCalled"
  /\ LET staged == IF call.target = "product" THEN ProductMetafields(call)
                   ELSE ArticleMetafields(call)
     IN call' = [call EXCEPT !.pc = "writerDone", !.metafields = staged,
                             !.sent = (staged # <<>>)]
  /\ UNCHANGED CallFrame

NextStage == StageAndSend

SpecStage == InitStage /\ [][NextStage]_vars

StagedValue(key) ==
  {call.metafields[i].value : i \in {n \in 1..Len(call.metafields) : call.metafields[n].key = key}}

\* What the claim allows to be staged under a key: the generated value when
\* the job writes the field and the value is non-empty after trim; or the
\* native counterpart when only the other field is written, the job is
\* configured for this one, this metafield is empty and the native value is not.
AllowedStaged(configured, generated, otherConfigured, otherGenerated, tag, native) ==
  LET written == configured /\ trim(generated) # <<>>
      otherWritten == otherConfigured /\ trim(otherGenerated) # <<>>
  IN (IF written THEN {trim(generated)} ELSE {})
     \cup (IF otherWritten /\ ~written /\ configured /\ trim(tag) = <<>> /\ trim(native) # <<>>
           THEN {trim(native)} ELSE {})

\* C36: the writers never stage an empty value; a field is staged with the
\* generated value only if the job writes it and the value is non-empty after
\* trim; the counterpart is backfilled only when exactly one field is written,
\* the job is configured for the other, the other metafield is empty and a
\* live native counterpart exists; nothing is sent when nothing is staged.
StagedAsSpecified ==
  call.pc = "writerDone" =>
    /\ \A i \in 1..Len(call.metafields) : call.metafields[i].value # <<>>
    /\ StagedValue("title_tag") \subseteq
         AllowedStaged(call.metaTitle, call.seoTitle, call.metaDescription,
                       call.seoDescription, call.titleTag, call.nativeTitle)
    /\ StagedValue("description_tag") \subseteq
         AllowedStaged(call.metaDescription, call.seoDescription, call.metaTitle,
                       call.seoTitle, call.descriptionTag, call.nativeDescription)
    /\ call.metafields = <<>> => ~call.sent

\* ------------------------------------------------------- cancel of a finished job
\* The columns of a job row the claim speaks of.
Outcome(r) == <<r.status, r.phase, r.okCount, r.failedCount,
                r.publishOkCount, r.publishFailedCount>>

\* C37: cancelJobForShop applied to a job that has finished (status success
\* or failed, no worker at work) leaves the job's status, phase and counters
\* and its items unchanged: no step of a cancel running on such a job changes
\* them.
CancelIgnoresFinishedJob ==
  [][(/\ usr.pc \in {"cancelItems", "cancelCount", "cancelJob"}
      /\ \A w \in Workers : wk[w].pc = "idle"
      /\ job[usr.job].status \in {"success", "failed"})
        => /\ Outcome(job'[usr.job]) = Outcome(job[usr.job])
           /\ item'[usr.job] = item[usr.job]]_vars

\* ------------------------------------------------------- finished phases and items
\* No request, no delivery and no message is in progress.
AtRest ==
  /\ usr.pc = "idle"
  /\ \A w \in Workers : wk[w].pc = "idle"
  /\ \A m \in Kinds \X Jobs : queue[m] = "none"

\* C38: a job with phase generated and status success has no item with status
\* queued or running, and a job with phase published and status success has no
\* item with publishStatus queued or running; stated for the states in which
\* every request and every delivery has returned and no message is left, so
\* that a state between two writes of one handler does not count.
FinishedPhaseHasNoOpenItem ==
  AtRest =>
    \A j \in Jobs :
      /\ (job[j].exists /\ job[j].phase = "generated" /\ job[j].status = "success")
            => \A i \in ItemIds(j) : item[j][i].status \notin {"queued", "running"}
      /\ (job[j].exists /\ job[j].phase = "published" /\ job[j].status = "success")
            => \A i \in ItemIds(j) : item[j][i].publishStatus \notin {"queued", "running"}

\* ------------------------------------------------------- publish request to completion
\* The user's one start_publish_all request for the job, at any moment after
\* the job was created.
PublishOnce(j) == (userOps = 0 /\ StartPublishAllItems(j)) \/ PublishJob

\* One job and one worker process; the user asks once for the publication of
\* every item; nobody cancels and no process dies.
NextPublishLive ==
  \/ (\E n \in 1..NumItems : StartGenerate("J1", n))
  \/ (\E k \in Kinds : Deliver("W1", k, "J1"))
  \/ WorkerRuns("W1")
  \/ PublishOnce("J1")

\* The broker delivers a waiting message, the worker's awaits return, and the
\* route handler runs to its end.
SpecPublishLive ==
  /\ Init /\ [][NextPublishLive]_vars
  /\ WF_vars(\E k \in Kinds : Deliver("W1", k, "J1"))
  /\ WF_vars(WorkerRuns("W1"))
  /\ WF_vars(PublishJob)

\* The producer has set the job to publishing / queued and its publish
\* message is in the queue.
PublishEnqueued(j) ==
  /\ job[j].phase = "publishing" /\ job[j].status = "queued"
  /\ queue[MsgId("publish", j)] # "none"

PublishedAll(j) ==
  /\ job[j].phase = "published"
  /\ \A i \in ItemIds(j) : item[j][i].publishStatus # "queued"

\* C39: once a producer has set a job to publishing / queued and enqueued its
\* publish message, every item leaves publishStatus queued and the job reaches
\* phase published, also when the request came during the generate phase.
PublishRequestCompletes == PublishEnqueued("J1") ~> PublishedAll("J1")

\* ------------------------------------------------- recovery of a slow worker
\* One generate job on worker process W1, which is never killed but may take
\* any time between two steps; the recovery timer runs; nobody retries.
NextSlow ==
  \/ (\E n \in 1..NumItems : StartGenerate("J1", n))
  \/ Deliver("W1", "generate", "J1")
  \/ DispatchStep("W1")
  \/ HeartbeatStep("W1")
  \/ GenerateStep("W1")
  \/ Tick
  \/ Recover

SpecSlow == Init /\ [][NextSlow]_vars

\* recoverStuckJobs has written its update on the job
MarkedRecovered(r) == r.status = "failed" /\ r.lastError = "recovered"

\* C40: once recoverStuckJobs has set a job to failed and cleared its lease,
\* and no user retries it, the job stays failed and its counters keep their
\* values, whatever the worker that was running it does afterwards.
RecoveredJobStaysFailed ==
  [][\A j \in Jobs :
       MarkedRecovered(job[j])
         => /\ job'[j].status = "failed"
            /\ Counted(job'[j]) = Counted(job[j])
            /\ job'[j].okCount = job[j].okCount
            /\ job'[j].failedCount = job[j].failedCount]_vars
====
